---- MODULE Spec2Model ----
(***************************************************************************)
(* Client-side state machines of the J-VIBE document viewer front end.     *)
(*                                                                         *)
(* Part 1: the chat session client (ChatInterface.js) as it is hosted by   *)
(* DocumentViewer.js: the viewer owns documentId, chatOpen and chatSession *)
(* and mounts one ChatInterface instance while the chat panel is open.     *)
(*                                                                         *)
(* React is modelled as follows.  A handler closes over the values of the  *)
(* render it was created in (view).  State set in a user event (click,     *)
(* key press) is rendered before the next event is handled, so those       *)
(* actions end with view' = the new state.  State set in a network         *)
(* callback (stream event, awaited response) is rendered later, by the     *)
(* separate action Render.  An EventSource dispatches an event only while  *)
(* it is not closed.                                                       *)
(***************************************************************************)
EXTENDS Integers, Sequences, FiniteSets, TLC

\* ------------------------------------------------------------- bounds
MaxSends  == 2   \* messages sent (streams requested) in one run
MaxDeltas == 2   \* content events one stream delivers
MaxCreates == 2  \* create-session requests in one run
MaxClears == 1   \* "Clear Chat" requests in one run
MaxSelections == 1  \* file selections while uploads are tracked
MaxFormSelections == 2  \* file selections while the form is validated
MaxBatch == 2    \* files of one selection while uploads are tracked
MaxFraction == 1 \* Math.random() takes the values 0..MaxFraction
MaxPages == 5    \* pages of the document the viewer has loaded
MaxFrames == 3   \* frames an event source delivers to createStreamPromise
MaxGarbled == 1  \* frames of one stream that are not valid JSON

\* ------------------------------------------------------------- values
Docs == {"d1", "d2"}

NoSession == [id |-> 0, document_id |-> "none"]

NoError             == "null"
ErrInitialize       == "Failed to initialize chat: "
ErrConnection       == "Connection error. Please try again."
ErrSend             == "Failed to send message: "
ErrClear            == "Failed to clear chat: "
ServerError         == "server error text"

\* Texts the user can have in the input box (sequences of characters).
Inputs == { <<>>, <<" ">>, <<" ", "h", " ">> }

\* The messages a freshly created session can carry (newSession.messages).
SystemMessage ==
  [id |-> 0, role |-> "system", content |-> <<"s">>, sources |-> <<>>]
InitialMessages == { <<>>, <<SystemMessage>> }

\* The i-th content delta the server streams for an answer.
Delta(i) == IF i % 2 = 1 THEN <<"H", "e", "l">> ELSE <<"l", "o">>

\* Payloads of a `sources` event: null, or a list of sources.
SourcePayloads == {"null", "list"}
SourceList == << [page_number |-> 5, title |-> "T"] >>

VARIABLES
  \* DocumentViewer
  documentId,        \* route parameter
  chatOpen,          \* chat panel shown: a ChatInterface instance is mounted
  chatSession,       \* the viewer's chatSession state
  \* network
  createReqs,        \* create-session requests issued: id -> [live, doc, done]
  clearReqs,         \* clear-history requests issued: id -> [live, ..., status]
  streams,           \* EventSources created: id -> record
  \* the mounted ChatInterface instance
  messages,
  inputValue,
  isStreaming,
  streamingContent,
  error,
  streamingRef,      \* streamingRef.current: 0 (null) or a stream id
  view,              \* the values the current handlers closed over
  clock,             \* Date.now() as used for message ids
  \* DocumentUpload
  form,              \* compound, studyId, deliverable
  selectedFiles,     \* sequence of file objects [id, file, status]
  uploads,           \* per-task state map: id -> entry
  uploadsView,       \* the uploads value the current handlers closed over
  uploadError,       \* the component's error state
  debugMode,
  uploadReqs,        \* startUpload calls: the request, its stream and poll
  now,               \* Date.now() of the latest file selection
  \* base path
  basePathGlobal,    \* window.__POSIT_BASE_PATH__
  pathname,          \* window.location.pathname
  nodeEnv,           \* process.env.NODE_ENV
  built,             \* the URL prefixes the client has built so far
  \* REST client
  restError,         \* the rejection axios hands to the response interceptor
  restThrown,        \* the message of the Error the caller's await throws
  \* the viewer coordinator (the PDF side of DocumentViewer)
  coordinator,       \* which DocumentViewer is built: "iframe" or "pages"
  documentFile,      \* the PDF is loaded (documentFile / pdfDocument set)
  numPages,          \* 0 (null) until the PDF is loaded
  pdfView,           \* page and search text the PDF view is set to
  snackbar,          \* severity of the snackbar shown last
  scrollTimer,       \* page the pending scroll timer scrolls to, 0: none
  searchTimer,       \* the pending debounced search, or NoTimer
  \* streamingUtils.createStreamPromise
  promise,           \* the promise: its state, its value, the callbacks given
  esReadyState,      \* eventSource.readyState: "open" or "closed"
  streamTimer,       \* the completion timeout: "none", "armed" or "fired"
  onDataCalls,       \* the frames onData was called with
  onErrorCalls,      \* how often onError was called
  \* frames
  garbledFrames      \* the frames received that were not valid JSON

chatPageVars == << documentId, chatOpen, chatSession, createReqs, clearReqs,
                   streams, messages, inputValue, isStreaming,
                   streamingContent, error, streamingRef, view, clock >>

uploadVars == << form, selectedFiles, uploads, uploadsView, uploadError,
                 debugMode, uploadReqs, now >>

resolverVars == << basePathGlobal, pathname, nodeEnv, built >>

restVars == << restError, restThrown >>

\* What the chat page, the upload page and the URL builders leave alone.
citationVars == << coordinator, documentFile, numPages, pdfView, snackbar,
                   scrollTimer, searchTimer >>

promiseVars == << promise, esReadyState, streamTimer, onDataCalls,
                  onErrorCalls >>

frameVars == << garbledFrames >>

sideVars == << restVars, citationVars, promiseVars, frameVars >>

vars == << chatPageVars, uploadVars, resolverVars, sideVars >>

viewerVars == << documentId, chatOpen, chatSession >>
chatVars   == << messages, inputValue, isStreaming, streamingContent, error,
                 streamingRef >>

\* ------------------------------------------------------------- helpers
RECURSIVE TrimStart(_)
TrimStart(s) ==
  IF s # <<>> /\ Head(s) = " " THEN TrimStart(Tail(s)) ELSE s

RECURSIVE TrimEnd(_)
TrimEnd(s) ==
  IF s # <<>> /\ s[Len(s)] = " " THEN TrimEnd(SubSeq(s, 1, Len(s) - 1)) ELSE s

\* String.prototype.trim
Trim(s) == TrimEnd(TrimStart(s))

\* What a render of the current state gives the handlers.
Rendered(streaming, session) ==
  [isStreaming |-> streaming, chatSession |-> session]

\* `data.data || []` of a sources event
SourcesOf(payload) == IF payload = "list" THEN SourceList ELSE <<>>

\* ------------------------------------------------------------- upload values
Undefined == "undefined"

\* useState('') of compound, studyId and deliverable
EmptyForm == [compound |-> <<>>, studyId |-> <<>>, deliverable |-> <<>>]

\* handleQuickFill's values (the text itself plays no role, only that it is
\* non-empty after trim)
QuickFillForm ==
  [compound |-> <<"J">>, studyId |-> <<"J","1">>, deliverable |-> <<"F">>]

FieldNames == {"compound", "studyId", "deliverable"}
FieldValues == { <<>>, <<" ">>, <<"J">> }

\* useState({}) of uploads: no task has an entry
NoUploads == [i \in {} |-> Undefined]

\* An entry is an object: a function from the names of the fields it has
\* to their values.  NoEntry is what spreading `prev[id]` gives for a task
\* without entry.
NoEntry == [k \in {} |-> Undefined]

\* prev[id], to be spread
EntryOf(prev, id) == IF id \in DOMAIN prev THEN prev[id] ELSE NoEntry

\* `{...entry, ...fields}`
With(entry, fields) ==
  [k \in DOMAIN entry \cup DOMAIN fields |->
     IF k \in DOMAIN fields THEN fields[k] ELSE entry[k]]

\* `object.k || d`, for the values that occur (the falsy ones are the
\* defaults themselves)
OrElse(object, k, d) == IF k \in DOMAIN object THEN object[k] ELSE d

\* uploads[id]?.status
StatusIn(prev, id) ==
  IF id \in DOMAIN prev /\ "status" \in DOMAIN prev[id]
    THEN prev[id].status ELSE Undefined

\* The base-path inputs and the URL prefixes built from them.
NotBuilt == <<"?">>
Builders == {"router", "rest", "statusStream", "chatStream", "serve", "admin"}
NothingBuilt == [b \in Builders |-> NotBuilt]

\* The chat page, the upload page and the URL builders before anything
\* happened.
ChatIdle ==
  /\ documentId = "d1"
  /\ chatOpen = FALSE
  /\ chatSession = NoSession
  /\ createReqs = <<>>
  /\ clearReqs = <<>>
  /\ streams = <<>>
  /\ messages = <<>>
  /\ inputValue = <<>>
  /\ isStreaming = FALSE
  /\ streamingContent = <<>>
  /\ error = NoError
  /\ streamingRef = 0
  /\ view = Rendered(FALSE, NoSession)
  /\ clock = 0

UploadIdle ==
  /\ form = EmptyForm
  /\ selectedFiles = <<>>
  /\ uploads = NoUploads
  /\ uploadsView = NoUploads
  /\ uploadError = NoError
  /\ uploadReqs = <<>>
  /\ now = 0

\* No REST call has failed.
NoRestError == [k \in {} |-> Undefined]
NotThrown == << >>
RestIdle ==
  /\ restError = NoRestError
  /\ restThrown = NotThrown

\* The viewer before its document is loaded: the iframe shows the viewer
\* URL without page or search parameter, the page list is at page 1.
NoTimer == [pending |-> FALSE, text |-> <<>>, pdfDocument |-> FALSE, numPages |-> 0]
NoSnackbar == "closed"
FirstView(which) ==
  [page |-> IF which = "iframe" THEN 0 ELSE 1, search |-> <<>>, scroll |-> 0]
ViewerIdle(which) ==
  /\ coordinator = which
  /\ documentFile = FALSE
  /\ numPages = 0
  /\ pdfView = FirstView(which)
  /\ snackbar = NoSnackbar
  /\ scrollTimer = 0
  /\ searchTimer = NoTimer

\* An event source for which createStreamPromise has not been called.
NoPromise == [state |-> "none", value |-> "", onData |-> FALSE, onError |-> FALSE]
PromiseIdle ==
  /\ promise = NoPromise
  /\ esReadyState = "open"
  /\ streamTimer = "none"
  /\ onDataCalls = <<>>
  /\ onErrorCalls = 0

FramesIdle == garbledFrames = {}

SideIdle == RestIdle /\ ViewerIdle("iframe") /\ PromiseIdle /\ FramesIdle

Init ==
  /\ ChatIdle
  /\ UploadIdle
  /\ SideIdle
  /\ debugMode = FALSE
  /\ basePathGlobal = <<>>
  /\ pathname = <<"/">>
  /\ nodeEnv = "production"
  /\ built = NothingBuilt

\* ------------------------------------------------------------- DocumentViewer
\* initializeChat's guard: `if (!documentId || chatSession) return;`
ShouldCreateSession(doc, session) == doc # "" /\ session = NoSession

\* The effect of ChatInterface that runs initializeChat: it issues a
\* create-session request unless the guard returns early.
InitializeChat(doc, session, reqs) ==
  IF ShouldCreateSession(doc, session)
    THEN Append(reqs, [live |-> TRUE, doc |-> doc, done |-> FALSE])
    ELSE reqs

\* useState initial values of a ChatInterface instance.
FreshChat ==
  /\ messages' = <<>>
  /\ inputValue' = <<>>
  /\ isStreaming' = FALSE
  /\ streamingContent' = <<>>
  /\ error' = NoError
  /\ streamingRef' = 0

\* toggleChat with the panel closed: the panel opens and a new ChatInterface
\* instance mounts; its effects run with the viewer's current props.
OpenChat ==
  /\ ~chatOpen
  /\ chatSession # NoSession \/ Len(createReqs) < MaxCreates
  /\ chatOpen' = TRUE
  /\ FreshChat
  /\ view' = Rendered(FALSE, chatSession)
  /\ createReqs' = InitializeChat(documentId, chatSession, createReqs)
  /\ UNCHANGED << documentId, chatSession, clearReqs, streams, clock >>
  /\ UNCHANGED << uploadVars, resolverVars, sideVars >>

\* The callbacks in f now belong to an unmounted instance.
Unmounted(f) == [x \in DOMAIN f |-> [f[x] EXCEPT !.live = FALSE]]

\* The EventSources of an unmounted instance stay open and their handlers
\* keep running, but what the handlers accumulate can reach no mounted
\* component: only whether the EventSource is open is kept of it.
Leaked(f) ==
  [k \in DOMAIN f |->
     [live |-> FALSE, session |-> f[k].session, closedBy |-> f[k].closedBy,
      content |-> <<>>, sources |-> <<>>,
      sent |-> 0, srcData |-> "none", errorEvent |-> FALSE]]

\* The await continuations of an unmounted instance's clear requests set
\* state of that instance only: nothing of them is kept.
Abandoned(f) ==
  [c \in DOMAIN f |->
     IF f[c].status = "sent" THEN [f[c] EXCEPT !.live = FALSE, !.status = "unmounted"]
     ELSE [f[c] EXCEPT !.live = FALSE]]

\* The close button / toggleChat with the panel open: the ChatInterface
\* instance unmounts and its state is dropped.  It registers no cleanup, so
\* its EventSource stays open and its pending requests stay pending; what
\* their callbacks set is the state of an unmounted instance.
CloseChat ==
  /\ chatOpen
  /\ chatOpen' = FALSE
  /\ FreshChat
  /\ view' = Rendered(FALSE, NoSession)
  /\ createReqs' = Unmounted(createReqs)
  /\ clearReqs' = Abandoned(clearReqs)
  /\ streams' = Leaked(streams)
  /\ UNCHANGED << documentId, chatSession, clock >>
  /\ UNCHANGED << uploadVars, resolverVars, sideVars >>

\* The route parameter changes (/documents/:documentId): the same
\* DocumentViewer re-renders; a mounted ChatInterface re-runs its effect.
ChangeDocument ==
  /\ chatSession # NoSession \/ Len(createReqs) < MaxCreates
  /\ \E d \in Docs \ {documentId} :
       /\ documentId' = d
       /\ IF chatOpen
            THEN /\ view' = Rendered(isStreaming, chatSession)
                 /\ createReqs' = InitializeChat(d, chatSession, createReqs)
            ELSE UNCHANGED << view, createReqs >>
  /\ UNCHANGED << chatOpen, chatSession, clearReqs, streams, chatVars,
                  clock >>
  /\ UNCHANGED << uploadVars, resolverVars, sideVars >>

\* Does callback record x belong to the instance mounted now?  (setState
\* of an unmounted instance changes nothing.)
Mounted(x) == chatOpen /\ x.live

\* createChatSession resolves: the continuation after the await.
InitResolved(r) ==
  /\ r \in DOMAIN createReqs
  /\ ~createReqs[r].done
  /\ createReqs' = [createReqs EXCEPT ![r].done = TRUE]
  /\ chatSession' = [id |-> r, document_id |-> createReqs[r].doc]
  /\ \E initial \in InitialMessages :
       messages' = IF Mounted(createReqs[r]) THEN initial ELSE messages
  /\ UNCHANGED << documentId, chatOpen, clearReqs, streams, inputValue,
                  isStreaming, streamingContent, error, streamingRef, view,
                  clock >>
  /\ UNCHANGED << uploadVars, resolverVars, sideVars >>

\* createChatSession rejects: the catch branch.
InitRejected(r) ==
  /\ r \in DOMAIN createReqs
  /\ ~createReqs[r].done
  /\ createReqs' = [createReqs EXCEPT ![r].done = TRUE]
  /\ error' = IF Mounted(createReqs[r]) THEN ErrInitialize ELSE error
  /\ UNCHANGED << viewerVars, clearReqs, streams, messages, inputValue,
                  isStreaming, streamingContent, streamingRef, view, clock >>
  /\ UNCHANGED << uploadVars, resolverVars, sideVars >>

\* React renders the state set by network callbacks; the effect with
\* dependencies [documentId, chatSession] re-runs when chatSession changed.
Render ==
  /\ chatOpen
  /\ view # Rendered(isStreaming, chatSession)
  /\ view' = Rendered(isStreaming, chatSession)
  /\ createReqs' = IF view.chatSession # chatSession
                     THEN InitializeChat(documentId, chatSession, createReqs)
                     ELSE createReqs
  /\ UNCHANGED << viewerVars, clearReqs, streams, chatVars, clock >>
  /\ UNCHANGED << uploadVars, resolverVars, sideVars >>

\* ------------------------------------------------------------- ChatInterface
\* (mutant) the guard without its session check
SendPreconditionNoSession(message, v) ==
  message # <<>> /\ ~v.isStreaming

\* (mutant) the guard without its isStreaming check
SendPreconditionNoStreaming(message, v) ==
  message # <<>> /\ v.chatSession # [id |-> 0, document_id |-> "none"]

\* handleSendMessage's guard: `if (!message || isStreaming || !chatSession) return;`
\* evaluated on the values the handler closed over.
SendPrecondition(message, v) ==
  message # <<>> /\ ~v.isStreaming /\ v.chatSession # NoSession

\* `setMessages(prev => [...prev, message])`
AppendMessage(prev, message) == Append(prev, message)

UserMessage(id, message) ==
  [id |-> id, role |-> "user", content |-> message, sources |-> <<>>]

\* `let assistantMessage = {...}` and the EventSource it belongs to.  closedBy
\* is "" while the EventSource is open, else the code path that closed it;
\* sent, srcData and errorEvent record what the server has delivered.
NewStream(id, session) ==
  [live |-> TRUE, session |-> session.id, closedBy |-> "",
   content |-> <<>>, sources |-> <<>>,
   sent |-> 0, srcData |-> "none", errorEvent |-> FALSE]

AssistantMessage(id, acc) ==
  [id |-> id, role |-> "assistant", content |-> acc.content,
   sources |-> acc.sources]

IsOpen(k) == k \in DOMAIN streams /\ streams[k].closedBy = ""

\* (mutant) the handlers' state updates without eventSource.close()
ClosedButOpen(how) ==
  [live |-> TRUE, session |-> 0, closedBy |-> "",
   content |-> <<>>, sources |-> <<>>,
   sent |-> 0, srcData |-> "none", errorEvent |-> FALSE]

\* eventSource.close(): a closed EventSource dispatches no further event, so
\* its handlers and the accumulator they close over are unreachable; the
\* record keeps only which code path closed it.
Closed(how) ==
  [live |-> FALSE, session |-> 0, closedBy |-> how,
   content |-> <<>>, sources |-> <<>>,
   sent |-> 0, srcData |-> "none", errorEvent |-> FALSE]

\* onChange of the input box.  (The box is rendered disabled while
\* isStreaming; the handlers are modelled as callable whenever the
\* component is mounted, so nothing proved below rests on that.)
SetInput ==
  /\ chatOpen
  /\ \E text \in Inputs \ {inputValue} : inputValue' = text
  /\ view' = Rendered(isStreaming, chatSession)
  /\ UNCHANGED << viewerVars, createReqs, clearReqs, streams, messages,
                  isStreaming, streamingContent, error, streamingRef, clock >>
  /\ UNCHANGED << uploadVars, resolverVars, sideVars >>

\* handleSendMessage() returning at its guard.
SendIgnored ==
  /\ chatOpen
  /\ ~SendPrecondition(Trim(inputValue), view)
  /\ UNCHANGED vars

\* handleSendMessage() past its guard, the EventSource constructed.
SendMessage ==
  /\ chatOpen
  /\ clock < MaxSends
  /\ SendPrecondition(Trim(inputValue), view)
  /\ clock' = clock + 1
  /\ inputValue' = <<>>
  /\ messages' = AppendMessage(messages, UserMessage(clock + 1, Trim(inputValue)))
  /\ isStreaming' = TRUE
  /\ streamingContent' = <<>>
  /\ error' = NoError
  /\ streams' = streams @@ ((clock + 1) :> NewStream(clock + 1, view.chatSession))
  /\ streamingRef' = clock + 1
  /\ view' = Rendered(TRUE, chatSession)
  /\ UNCHANGED << viewerVars, createReqs, clearReqs >>
  /\ UNCHANGED << uploadVars, resolverVars, sideVars >>

\* handleSendMessage() past its guard, `new EventSource(...)` throwing: the
\* outer catch.
SendThrows ==
  /\ chatOpen
  /\ clock < MaxSends
  /\ SendPrecondition(Trim(inputValue), view)
  /\ clock' = clock + 1
  /\ inputValue' = <<>>
  /\ messages' = AppendMessage(messages, UserMessage(clock + 1, Trim(inputValue)))
  /\ isStreaming' = FALSE
  /\ streamingContent' = <<>>
  /\ error' = ErrSend
  /\ view' = Rendered(FALSE, chatSession)
  /\ UNCHANGED << viewerVars, createReqs, clearReqs, streams,
                  streamingRef >>
  /\ UNCHANGED << uploadVars, resolverVars, sideVars >>

\* (mutant) the delta put in front of the accumulated content
AccumulatePrepended(acc, delta) == [acc EXCEPT !.content = delta \o @]

\* (mutant) the delta replacing the accumulated content
AccumulateOverwriting(acc, delta) == [acc EXCEPT !.content = delta]

\* case 'content': `assistantMessage.content += data.data`
AccumulateContent(acc, delta) == [acc EXCEPT !.content = @ \o delta]

\* case 'sources': `assistantMessage.sources = data.data || []`
AccumulateSources(acc, payload) == [acc EXCEPT !.sources = SourcesOf(payload)]

\* onmessage, case 'content'
OnContent(k) ==
  /\ IsOpen(k)
  /\ streams[k].sent < MaxDeltas
  /\ LET delta == Delta(streams[k].sent + 1) IN
       /\ streams' = IF streams[k].live
            THEN [streams EXCEPT
                    ![k] = [AccumulateContent(@, delta) EXCEPT !.sent = @ + 1]]
            ELSE streams
       /\ streamingContent' = IF Mounted(streams[k])
                                THEN streamingContent \o delta
                                ELSE streamingContent
  /\ UNCHANGED << viewerVars, createReqs, clearReqs, messages,
                  inputValue, isStreaming, error, streamingRef, view, clock >>
  /\ UNCHANGED << uploadVars, resolverVars, sideVars >>

\* onmessage, case 'sources'
OnSources(k) ==
  /\ IsOpen(k)
  /\ \E payload \in SourcePayloads :
       streams' = IF streams[k].live
         THEN [streams EXCEPT
                 ![k] = [AccumulateSources(@, payload) EXCEPT !.srcData = payload]]
         ELSE streams
  /\ UNCHANGED << viewerVars, createReqs, clearReqs, chatVars, view,
                  clock >>
  /\ UNCHANGED << uploadVars, resolverVars, sideVars >>

\* onmessage, case 'complete'
OnComplete(k) ==
  /\ IsOpen(k)
  /\ streams' = [streams EXCEPT ![k] = Closed("complete")]
  /\ IF Mounted(streams[k])
       THEN /\ messages' = AppendMessage(messages, AssistantMessage(k, streams[k]))
            /\ streamingContent' = <<>>
            /\ isStreaming' = FALSE
            /\ streamingRef' = 0
       ELSE UNCHANGED << messages, streamingContent, isStreaming, streamingRef >>
  /\ UNCHANGED << viewerVars, createReqs, clearReqs, inputValue, error,
                  view, clock >>
  /\ UNCHANGED << uploadVars, resolverVars, sideVars >>

\* onmessage, case 'error': the throw is caught by the handler's own
\* try/catch, which only logs.
OnErrorEvent(k) ==
  /\ IsOpen(k)
  /\ streams' = IF streams[k].live
                  THEN [streams EXCEPT ![k].errorEvent = TRUE]
                  ELSE streams
  /\ UNCHANGED << viewerVars, createReqs, clearReqs, chatVars, view,
                  clock >>
  /\ UNCHANGED << uploadVars, resolverVars, sideVars >>

\* onmessage, default: an unknown event type is logged.
OnUnknownEvent(k) ==
  /\ IsOpen(k)
  /\ UNCHANGED vars

\* eventSource.onerror
OnTransportError(k) ==
  /\ IsOpen(k)
  /\ streams' = [streams EXCEPT ![k] = Closed("onerror")]
  /\ IF Mounted(streams[k])
       THEN /\ error' = ErrConnection
            /\ isStreaming' = FALSE
            /\ streamingContent' = <<>>
            /\ streamingRef' = 0
       ELSE UNCHANGED << error, isStreaming, streamingContent, streamingRef >>
  /\ UNCHANGED << viewerVars, createReqs, clearReqs, messages,
                  inputValue, view, clock >>
  /\ UNCHANGED << uploadVars, resolverVars, sideVars >>

\* (mutant) the reference dropped without closing the EventSource
DropReferenced(ref, strs) == strs

\* `if (streamingRef.current) { streamingRef.current.close(); ... }`
CloseReferenced(ref, strs) ==
  IF ref # 0
    THEN [strs EXCEPT ![ref] = IF @.closedBy = "" THEN Closed("stop") ELSE @]
    ELSE strs

\* handleStopStreaming
StopStreaming ==
  /\ chatOpen
  /\ streams' = CloseReferenced(streamingRef, streams)
  /\ streamingRef' = 0
  /\ isStreaming' = FALSE
  /\ streamingContent' = <<>>
  /\ view' = Rendered(FALSE, chatSession)
  /\ UNCHANGED << viewerVars, createReqs, clearReqs, messages,
                  inputValue, error, clock >>
  /\ UNCHANGED << uploadVars, resolverVars, sideVars >>

\* handleClearChat up to its await: apiService.clearChatHistory(id, true)
ClearChat ==
  /\ chatOpen
  /\ Len(clearReqs) < MaxClears
  /\ view.chatSession # NoSession
  /\ clearReqs' = Append(clearReqs,
       [live |-> TRUE,
        keep_system_messages |-> TRUE, status |-> "sent"])
  /\ UNCHANGED << viewerVars, createReqs, streams, chatVars, view,
                  clock >>
  /\ UNCHANGED << uploadVars, resolverVars, sideVars >>

\* The local truncation of handleClearChat: `setMessages([])`
ClearedMessages(msgs, keep) == <<>>

\* (mutant) the list truncated whether or not the request succeeded
AfterClearAlways(ok, keep, msgs) ==
  [messages |-> <<>>, error |-> IF ok THEN NoError ELSE ErrClear]

\* handleClearChat after its await: the rest of the try when the request
\* succeeded, the catch when it failed.
AfterClear(ok, keep, msgs) ==
  IF ok THEN [messages |-> ClearedMessages(msgs, keep), error |-> NoError]
        ELSE [messages |-> msgs, error |-> ErrClear]

\* clearChatHistory resolves.
ClearResolved(c) ==
  /\ c \in DOMAIN clearReqs
  /\ clearReqs[c].status = "sent"
  /\ clearReqs' = [clearReqs EXCEPT ![c].status = "ok"]
  /\ IF Mounted(clearReqs[c])
       THEN LET after == AfterClear(TRUE, clearReqs[c].keep_system_messages,
                                    messages)
            IN  messages' = after.messages /\ error' = after.error
       ELSE UNCHANGED << messages, error >>
  /\ UNCHANGED << viewerVars, createReqs, streams, inputValue,
                  isStreaming, streamingContent, streamingRef, view, clock >>
  /\ UNCHANGED << uploadVars, resolverVars, sideVars >>

\* clearChatHistory rejects.
ClearRejected(c) ==
  /\ c \in DOMAIN clearReqs
  /\ clearReqs[c].status = "sent"
  /\ clearReqs' = [clearReqs EXCEPT ![c].status = "failed"]
  /\ IF Mounted(clearReqs[c])
       THEN LET after == AfterClear(FALSE, clearReqs[c].keep_system_messages,
                                    messages)
            IN  messages' = after.messages /\ error' = after.error
       ELSE UNCHANGED << messages, error >>
  /\ UNCHANGED << viewerVars, createReqs, streams, inputValue,
                  isStreaming, streamingContent, streamingRef, view, clock >>
  /\ UNCHANGED << uploadVars, resolverVars, sideVars >>

\* ------------------------------------------------------------- DocumentUpload
\* The upload page.  Its handlers read compound, studyId, deliverable and
\* selectedFiles, which only user events set (and a user event is rendered
\* before the next one is handled), and uploads, which network callbacks
\* set too: handleUploadAll reads the uploads of the last render
\* (uploadsView).  The three upload endpoints of startUpload differ in
\* their URL only and are modelled as one request.

PdfType == "application/pdf"

\* `pdfFiles.length > 10`
MaxFilesAtOnce == 10

ErrOnlyPdf      == "Only PDF files are supported"
ErrTooMany      == "Maximum 10 files can be uploaded at once"
ErrCompound     == "Compound is required"
ErrStudyId      == "Study ID is required"
ErrDeliverable  == "Deliverable is required"
ErrNoFile       == "At least one file must be selected"
ErrUploadFailed == "Upload failed"
ErrUploadDebug  == "Upload failed: "

\* A FileList of n files whose bad-th file is not a PDF (bad = 0: none).
Batch(n, bad) ==
  [i \in 1..n |->
     [name |-> i, type |-> IF i = bad THEN "text/plain" ELSE PdfType]]

\* files.filter(file => file.type === 'application/pdf')
IsPdf(file) == file.type = PdfType
PdfFilesOf(files) == SelectSeq(files, IsPdf)

\* Date.now() + Math.random(): the sum of the millisecond t and the fraction
\* r, as far as a double tells fractions apart at that magnitude.
FileId(t, r) == << t, r >>

\* The objects handleFileSelection makes of the files; obj stands for the
\* identity of the JavaScript object.
FileObjects(pdfFiles, t, rnd) ==
  [i \in 1..Len(pdfFiles) |->
     [obj |-> << t, i >>, id |-> FileId(t, rnd[i]),
      name |-> pdfFiles[i].name, status |-> "pending"]]

\* Mutants of the selection check: one that drops the files that are no
\* PDFs instead of rejecting the batch, one whose limit is off by one.
SelectionErrorFiltering(files) ==
  IF Len(PdfFilesOf(files)) > MaxFilesAtOnce THEN ErrTooMany ELSE NoError

SelectionErrorOffByOne(files) ==
  IF Len(PdfFilesOf(files)) # Len(files) THEN ErrOnlyPdf
  ELSE IF Len(PdfFilesOf(files)) >= MaxFilesAtOnce THEN ErrTooMany
  ELSE NoError

\* The two checks of handleFileSelection: the error it reports, or null.
SelectionError(files) ==
  IF Len(PdfFilesOf(files)) # Len(files) THEN ErrOnlyPdf
  ELSE IF Len(PdfFilesOf(files)) > MaxFilesAtOnce THEN ErrTooMany
  ELSE NoError

\* handleFileSelection(files); rnd are the values of Math.random().
HandleFileSelection(files, rnd) ==
  /\ now' = now + 1
  /\ IF SelectionError(files) # NoError
       THEN /\ uploadError' = SelectionError(files)
            /\ UNCHANGED selectedFiles
       ELSE /\ selectedFiles' =
                 selectedFiles \o FileObjects(PdfFilesOf(files), now + 1, rnd)
            /\ uploadError' = NoError
  /\ uploadsView' = uploads
  /\ UNCHANGED << form, uploads, debugMode, uploadReqs >>
  /\ UNCHANGED << chatPageVars, resolverVars, sideVars >>

\* handleRemoveFile(fileId)
WithoutFile(files, fileId) == SelectSeq(files, LAMBDA f : f.id # fileId)

HandleRemoveFile(fileId) ==
  /\ selectedFiles' = WithoutFile(selectedFiles, fileId)
  /\ uploadsView' = uploads
  /\ UNCHANGED << form, uploads, uploadError, debugMode, uploadReqs, now >>
  /\ UNCHANGED << chatPageVars, resolverVars, sideVars >>

\* onChange of the three required text fields
SetField(name, text) ==
  /\ form[name] # text
  /\ form' = [form EXCEPT ![name] = text]
  /\ uploadsView' = uploads
  /\ UNCHANGED << selectedFiles, uploads, uploadError, debugMode, uploadReqs,
                  now >>
  /\ UNCHANGED << chatPageVars, resolverVars, sideVars >>

\* handleQuickFill; its button is rendered in debug mode only
HandleQuickFill ==
  /\ debugMode
  /\ form # QuickFillForm
  /\ form' = QuickFillForm
  /\ uploadsView' = uploads
  /\ UNCHANGED << selectedFiles, uploads, uploadError, debugMode, uploadReqs,
                  now >>
  /\ UNCHANGED << chatPageVars, resolverVars, sideVars >>

\* validateForm: the error it sets, or null when it returns true.
ValidateForm(f, files) ==
  IF Trim(f.compound) = <<>> THEN ErrCompound
  ELSE IF Trim(f.studyId) = <<>> THEN ErrStudyId
  ELSE IF Trim(f.deliverable) = <<>> THEN ErrDeliverable
  ELSE IF Len(files) = 0 THEN ErrNoFile
  ELSE NoError

\* `!uploads[f.id] || uploads[f.id].status === 'pending'`, a mutant of it
\* that takes failed tasks up again, and the filter itself.
IsPendingOrFailed(shown, f) ==
  \/ f.id \notin DOMAIN shown
  \/ StatusIn(shown, f.id) \in {"pending", "error"}

IsPending(shown, f) ==
  \/ f.id \notin DOMAIN shown
  \/ StatusIn(shown, f.id) = "pending"

PendingFiles(files, shown) ==
  SelectSeq(files, LAMBDA f : IsPending(shown, f))

\* `{...prev, [id]: entry}`
SetEntry(prev, id, entry) ==
  [i \in DOMAIN prev \cup {id} |-> IF i = id THEN entry ELSE prev[i]]

\* The entry handleUploadAll writes for a pending file.
UploadingEntry(f) ==
  [status |-> "uploading", uploadProgress |-> 0, processingProgress |-> 0,
   filename |-> f.name]

\* The updaters handleUploadAll queues, applied in order.
RECURSIVE SetUploading(_, _)
SetUploading(prev, files) ==
  IF files = <<>> THEN prev
  ELSE SetUploading(SetEntry(prev, Head(files).id, UploadingEntry(Head(files))),
                    Tail(files))

\* startUpload(fileObj) up to its first await: in debug mode the form data
\* is tested first, otherwise the upload request is sent.  The record is
\* the call's closure and position, the status stream and the poll loop it
\* starts later.
StartUpload(f, debug) ==
  [fileObj |-> f, debug |-> debug,
   phase |-> IF debug THEN "testing" ELSE "posting",
   posts |-> IF debug THEN 0 ELSE 1,
   documentId |-> 0, stream |-> "none", poll |-> "none"]

StartUploads(files, debug) ==
  [i \in 1..Len(files) |-> StartUpload(files[i], debug)]

\* handleUploadAll
HandleUploadAll ==
  LET invalid == ValidateForm(form, selectedFiles)
      pendingFiles == PendingFiles(selectedFiles, uploadsView)
  IN
  /\ IF invalid # NoError
       THEN /\ uploadError' = invalid
            /\ UNCHANGED << uploads, uploadReqs >>
       ELSE /\ uploadError' = NoError
            /\ uploads' = SetUploading(uploads, pendingFiles)
            /\ uploadReqs' = uploadReqs \o StartUploads(pendingFiles, debugMode)
  /\ uploadsView' = uploads'
  /\ UNCHANGED << form, selectedFiles, debugMode, now >>
  /\ UNCHANGED << chatPageVars, resolverVars, sideVars >>

\* A render after network callbacks changed uploads.
RenderUpload ==
  /\ uploadsView # uploads
  /\ uploadsView' = uploads
  /\ UNCHANGED << form, selectedFiles, uploads, uploadError, debugMode,
                  uploadReqs, now >>
  /\ UNCHANGED << chatPageVars, resolverVars, sideVars >>

\* The id under which request q updates uploads.
TaskId(q) == uploadReqs[q].fileObj.id

\* What network callbacks leave alone.
CallbackFrame ==
  /\ UNCHANGED << form, selectedFiles, uploadsView, debugMode, now >>
  /\ UNCHANGED << chatPageVars, resolverVars, sideVars >>

\* onUploadProgress
ProgressPercents == {50}

OnUploadProgress(q) ==
  /\ uploadReqs[q].phase = "posting"
  /\ \E percent \in ProgressPercents :
       uploads' = SetEntry(uploads, TaskId(q),
                    With(EntryOf(uploads, TaskId(q)),
                         [uploadProgress |-> percent]))
  /\ UNCHANGED << uploadReqs, uploadError >>
  /\ CallbackFrame

\* The catch of startUpload.
FailedEntry(entry) ==
  With(entry, [status |-> "error", error |-> ErrUploadFailed])

UploadCatch(q) ==
  /\ uploads' = SetEntry(uploads, TaskId(q),
                         FailedEntry(EntryOf(uploads, TaskId(q))))
  /\ uploadError' = IF uploadReqs[q].debug THEN ErrUploadDebug ELSE uploadError

\* testFormData of debug mode passes: the upload request is sent.
TestPassed(q) ==
  /\ uploadReqs[q].phase = "testing"
  /\ uploadReqs' = [uploadReqs EXCEPT ![q].phase = "posting",
                                      ![q].posts = @ + 1]
  /\ UNCHANGED << uploads, uploadError >>
  /\ CallbackFrame

\* testFormData throws.
TestFailed(q) ==
  /\ uploadReqs[q].phase = "testing"
  /\ uploadReqs' = [uploadReqs EXCEPT ![q].phase = "failed"]
  /\ UploadCatch(q)
  /\ CallbackFrame

\* The upload request fails.
UploadFailed(q) ==
  /\ uploadReqs[q].phase = "posting"
  /\ uploadReqs' = [uploadReqs EXCEPT ![q].phase = "failed"]
  /\ UploadCatch(q)
  /\ CallbackFrame

\* The bodies the upload endpoint answers with (document_id apart).
UploadResponses ==
  { [document_id |-> "issued"],
    [document_id |-> "issued", progress |-> 10, message |-> "Queued"] }

\* The status objects the server sends on the stream and to a poll.
StatusPayloads ==
  { [status |-> "processing", progress |-> 50, message |-> "Extracting"],
    [status |-> "completed", progress |-> 100, message |-> "Done",
     tlf_outputs_found |-> 3],
    [status |-> "failed", error_message |-> "Extraction failed"] }

\* The entry startUpload writes when the upload request has succeeded.
UploadedEntry(f, documentIdOfUpload, response) ==
  [documentId |-> documentIdOfUpload,
   status |-> "uploaded",
   uploadProgress |-> 100,
   processingProgress |-> OrElse(response, "progress", 0),
   message |-> OrElse(response, "message", "Processing..."),
   filename |-> f.name]

\* The upload request succeeds: the entry is replaced and
\* monitorProcessingStatus opens the status stream, or polls at once when
\* creating the stream throws.
UploadSucceeded(q) ==
  /\ uploadReqs[q].phase = "posting"
  /\ \E response \in UploadResponses :
       uploads' = SetEntry(uploads, TaskId(q),
                           UploadedEntry(uploadReqs[q].fileObj, q, response))
  /\ \E streamThrows \in BOOLEAN :
       uploadReqs' = [uploadReqs EXCEPT
                        ![q].phase = "done",
                        ![q].documentId = q,
                        ![q].stream = IF streamThrows THEN "none" ELSE "open",
                        ![q].poll = IF streamThrows THEN "inflight" ELSE "none"]
  /\ UNCHANGED uploadError
  /\ CallbackFrame

\* The status of the entry for a status object.
StatusOf(payload) ==
  IF payload.status = "completed" THEN "completed"
  ELSE IF payload.status = "failed" THEN "error"
  ELSE "processing"

IsTerminal(payload) == payload.status \in {"completed", "failed"}

\* The updater of the stream's onmessage and of pollProcessingStatus.
ApplyStatus(entry, payload) ==
  With(entry,
       [processingProgress |-> OrElse(payload, "progress", 0),
        message |-> OrElse(payload, "message", "Processing..."),
        status |-> StatusOf(payload),
        error |-> OrElse(payload, "error_message", "null"),
        tlf_outputs_found |-> OrElse(payload, "tlf_outputs_found", 0)])

\* eventSource.onmessage of the status stream
OnStatusMessage(q) ==
  /\ uploadReqs[q].stream = "open"
  /\ \E payload \in StatusPayloads :
       /\ uploads' = SetEntry(uploads, TaskId(q),
                              ApplyStatus(EntryOf(uploads, TaskId(q)), payload))
       /\ uploadReqs' = [uploadReqs EXCEPT ![q].stream =
                           IF IsTerminal(payload) THEN "closed" ELSE "open"]
  /\ UNCHANGED uploadError
  /\ CallbackFrame

\* eventSource.onerror of the status stream: close, poll after 2 s
OnStatusStreamError(q) ==
  /\ uploadReqs[q].stream = "open"
  /\ uploadReqs' = [uploadReqs EXCEPT ![q].stream = "closed",
                                      ![q].poll = "timer"]
  /\ UNCHANGED << uploads, uploadError >>
  /\ CallbackFrame

\* A timer set by onerror or by pollProcessingStatus fires.
PollTimerFires(q) ==
  /\ uploadReqs[q].poll = "timer"
  /\ uploadReqs' = [uploadReqs EXCEPT ![q].poll = "inflight"]
  /\ UNCHANGED << uploads, uploadError >>
  /\ CallbackFrame

\* What pollProcessingStatus does next for the answer it got.
AfterPoll(answered, terminal) ==
  IF answered /\ ~terminal THEN "timer" ELSE "stopped"

\* getProcessingStatus answers with a status object.
PollResolved(q) ==
  /\ uploadReqs[q].poll = "inflight"
  /\ \E payload \in StatusPayloads :
       /\ uploads' = SetEntry(uploads, TaskId(q),
                              ApplyStatus(EntryOf(uploads, TaskId(q)), payload))
       /\ uploadReqs' = [uploadReqs EXCEPT ![q].poll =
                           AfterPoll(TRUE, IsTerminal(payload))]
  /\ UNCHANGED uploadError
  /\ CallbackFrame

\* getProcessingStatus answers with an empty body: `if (status)` fails and
\* nothing is scheduled.
PollEmpty(q) ==
  /\ uploadReqs[q].poll = "inflight"
  /\ uploadReqs' = [uploadReqs EXCEPT ![q].poll = AfterPoll(FALSE, FALSE)]
  /\ UNCHANGED << uploads, uploadError >>
  /\ CallbackFrame

\* getProcessingStatus rejects: poll again after 5 s
PollRejected(q) ==
  /\ uploadReqs[q].poll = "inflight"
  /\ uploadReqs' = [uploadReqs EXCEPT ![q].poll = "timer"]
  /\ UNCHANGED << uploads, uploadError >>
  /\ CallbackFrame

\* ------------------------------------------------------------- base path
\* Strings are sequences of characters.  A falsy global (undefined or '')
\* is the empty sequence.
Http    == << "h","t","t","p",":","/","/" >>
Https   == << "h","t","t","p","s",":","/","/" >>
ApiRoot == << "/","a","p","i","/","v","1" >>
WorkbenchStart == << "/","s","/" >>
PortStart      == << "/","p","/" >>
ConnectStart   == << "/","c","o","n","n","e","c","t","/" >>

\* String.prototype.startsWith, endsWith('/'), slice(0, -1), slice(n)
StartsWith(s, prefix) ==
  Len(s) >= Len(prefix) /\ SubSeq(s, 1, Len(prefix)) = prefix
EndsWithSlash(s) == s # <<>> /\ s[Len(s)] = "/"
DropLast(s) == SubSeq(s, 1, Len(s) - 1)
After(s, n) == SubSeq(s, n + 1, Len(s))

\* The longest prefix of s without a character of stops: what `[^\/]+` and
\* `[^\/]*` match, and what split(c)[0] returns.
RECURSIVE Until(_, _)
Until(s, stops) ==
  IF s = <<>> \/ Head(s) \in stops THEN <<>>
  ELSE << Head(s) >> \o Until(Tail(s), stops)

RECURSIVE SkipSlashes(_)
SkipSlashes(s) ==
  IF s # <<>> /\ Head(s) \in {"/", "\\"} THEN SkipSlashes(Tail(s)) ELSE s

\* new URL(url).pathname for an http(s) URL without credentials, port,
\* dot segments or characters to escape: the slashes after the scheme are
\* skipped, the host runs up to the first of / ? #, an empty host throws,
\* the path runs up to the first of ? # and is "/" when empty.
UrlPathname(url) ==
  LET rest == SkipSlashes(After(url, IF StartsWith(url, Https)
                                       THEN Len(Https) ELSE Len(Http)))
      host == Until(rest, {"/", "?", "#"})
      path == Until(After(rest, Len(host)), {"?", "#"})
  IN IF host = <<>> THEN [throws |-> TRUE, pathname |-> <<>>]
     ELSE [throws |-> FALSE,
           pathname |-> IF path = <<>> THEN << "/" >> ELSE path]

IsFullUrl(s) == StartsWith(s, Http) \/ StartsWith(s, Https)

\* The clean-up of a server-provided value that is a full URL.
ServerProvidedPath(g) ==
  IF IsFullUrl(g)
    THEN IF UrlPathname(g).throws THEN <<>> ELSE UrlPathname(g).pathname
    ELSE g

\* pathname.match(/^(\/s\/[^\/]+\/p\/[^\/]+)/)
WorkbenchMatch(p) ==
  LET session == Until(After(p, Len(WorkbenchStart)), {"/"})
      rest == After(p, Len(WorkbenchStart) + Len(session))
      port == Until(After(rest, Len(PortStart)), {"/"})
  IN IF /\ StartsWith(p, WorkbenchStart)
        /\ session # <<>>
        /\ StartsWith(rest, PortStart)
        /\ port # <<>>
       THEN [matched |-> TRUE,
             text |-> WorkbenchStart \o session \o PortStart \o port]
       ELSE [matched |-> FALSE, text |-> <<>>]

\* pathname.match(/^(\/connect\/[^\/]*)/)
ConnectMatch(p) ==
  IF StartsWith(p, ConnectStart)
    THEN [matched |-> TRUE,
          text |-> ConnectStart \o Until(After(p, Len(ConnectStart)), {"/"})]
    ELSE [matched |-> FALSE, text |-> <<>>]

\* The client-side detection from the pathname.
DetectedPath(p) ==
  IF WorkbenchMatch(p).matched THEN WorkbenchMatch(p).text
  ELSE IF ConnectMatch(p).matched THEN ConnectMatch(p).text
  ELSE <<>>

\* "Clean up the base path": a leading slash is added, one trailing slash
\* is removed.  First a mutant that keeps the trailing slash.
CleanUpKeepingSlash(basePath) ==
  IF basePath = <<>> THEN <<>>
  ELSE IF Head(basePath) # "/" THEN << "/" >> \o basePath ELSE basePath

CleanUp(basePath) ==
  IF basePath = <<>> THEN <<>>
  ELSE LET led == IF Head(basePath) # "/" THEN << "/" >> \o basePath
                  ELSE basePath
       IN IF EndsWithSlash(led) THEN DropLast(led) ELSE led

\* getEventSourceBaseURL of apiService.js
getEventSourceBaseURL(g, p) ==
  CleanUp(IF g # <<>> THEN ServerProvidedPath(g) ELSE DetectedPath(p))

\* getBaseURL of apiService.js
getBaseURL(env, g, p) ==
  IF env = "development" THEN ApiRoot
  ELSE CleanUp(IF g # <<>> THEN ServerProvidedPath(g) ELSE DetectedPath(p))
         \o ApiRoot

\* getBasePath of the App: the detected path is returned as matched.
getBasePath(g, p) ==
  IF g # <<>> THEN CleanUp(ServerProvidedPath(g)) ELSE DetectedPath(p)

\* s.includes(sep) and s.split(sep)[0]
RECURSIVE Before(_, _)
Before(s, sep) ==
  IF s = <<>> \/ StartsWith(s, sep) THEN <<>>
  ELSE << Head(s) >> \o Before(Tail(s), sep)
Includes(s, sep) == Len(Before(s, sep)) + Len(sep) <= Len(s)

\* baseUrl of handleSendMessage
ChatBaseUrl(p) ==
  IF Includes(p, PortStart)
    THEN Before(p, PortStart) \o PortStart
           \o Until(After(p, Len(Before(p, PortStart)) + Len(PortStart)), {"/"})
    ELSE <<>>

\* The client builds a URL; built keeps it up to its API root (the router's
\* base path has none).
\* axios.create({ baseURL: getBaseURL() }) when apiService.js is loaded
LoadApiService ==
  /\ built["rest"] = NotBuilt
  /\ built' = [built EXCEPT !["rest"] = getBaseURL(nodeEnv, basePathGlobal, pathname)]
  /\ UNCHANGED << basePathGlobal, pathname, nodeEnv >>
  /\ UNCHANGED << chatPageVars, uploadVars, sideVars >>

\* setBasePath(getBasePath()) when the App mounts
MountApp ==
  /\ built["router"] = NotBuilt
  /\ built' = [built EXCEPT !["router"] = getBasePath(basePathGlobal, pathname)]
  /\ UNCHANGED << basePathGlobal, pathname, nodeEnv >>
  /\ UNCHANGED << chatPageVars, uploadVars, sideVars >>

\* createStatusStream
CreateStatusStream ==
  /\ built["statusStream"] = NotBuilt
  /\ built' = [built EXCEPT !["statusStream"] = getEventSourceBaseURL(basePathGlobal, pathname) \o ApiRoot]
  /\ UNCHANGED << basePathGlobal, pathname, nodeEnv >>
  /\ UNCHANGED << chatPageVars, uploadVars, sideVars >>

\* the stream URL of handleSendMessage
ChatMessageStream ==
  /\ built["chatStream"] = NotBuilt
  /\ built' = [built EXCEPT !["chatStream"] = ChatBaseUrl(pathname) \o ApiRoot]
  /\ UNCHANGED << basePathGlobal, pathname, nodeEnv >>
  /\ UNCHANGED << chatPageVars, uploadVars, sideVars >>

\* pdfUrl of the DocumentViewer
ServeDocument ==
  /\ built["serve"] = NotBuilt
  /\ built' = [built EXCEPT !["serve"] = basePathGlobal \o ApiRoot]
  /\ UNCHANGED << basePathGlobal, pathname, nodeEnv >>
  /\ UNCHANGED << chatPageVars, uploadVars, sideVars >>

\* the vector-store switch of the AdminDashboard
AdminConfigCall ==
  /\ built["admin"] = NotBuilt
  /\ built' = [built EXCEPT !["admin"] = ApiRoot]
  /\ UNCHANGED << basePathGlobal, pathname, nodeEnv >>
  /\ UNCHANGED << chatPageVars, uploadVars, sideVars >>

\* ------------------------------------------------------------- REST client
\* An axios rejection is an object with the optional fields response
\* (status and data), request and message; data is an object with the
\* optional fields detail and message.  Texts are strings, '' is falsy.
NoData == [k \in {} |-> Undefined]
Statuses == {"404", "500"}
ResponseData ==
  { NoData,
    [detail |-> "D"],
    [message |-> "M"],
    [detail |-> "D", message |-> "M"],
    [detail |-> "", message |-> "M"],
    [detail |-> "", message |-> ""] }
Responses == { [status |-> s, data |-> d] : s \in Statuses, d \in ResponseData }
OriginalMessages == { "", "Network Error", "canceled" }

ErrServer     == "Server error"
ErrNoResponse == "No response from server. Please check your connection."
ErrUnknown    == "Unknown error occurred"

\* `object.k` is truthy
Truthy(object, k) == k \in DOMAIN object /\ object[k] # ""

\* (mutant) `data?.detail || 'Server error'`
ServerMessageDetailOnly(data) ==
  IF Truthy(data, "detail") THEN data.detail ELSE ErrServer

\* `error.response.data?.detail || error.response.data?.message || 'Server error'`
ServerMessage(data) ==
  IF Truthy(data, "detail") THEN data.detail
  ELSE IF Truthy(data, "message") THEN data.message
  ELSE ErrServer

\* The rejection handler of api.interceptors.response: the message of the
\* Error it throws, as the pieces of its template.
ResponseError(err) ==
  IF "response" \in DOMAIN err
    THEN << err.response.status, ": ", ServerMessage(err.response.data) >>
  ELSE IF "request" \in DOMAIN err
    THEN << ErrNoResponse >>
  ELSE << IF Truthy(err, "message") THEN err.message ELSE ErrUnknown >>

\* A REST call through the axios instance fails and the interceptor turns
\* the rejection into the Error the caller catches.
InterceptRejection ==
  /\ restThrown = NotThrown
  /\ restThrown' = ResponseError(restError)
  /\ UNCHANGED restError
  /\ UNCHANGED << chatPageVars, uploadVars, resolverVars, citationVars,
                  promiseVars, frameVars >>

\* ------------------------------------------------------------- viewer coordinator
\* Two DocumentViewer components handle citation clicks: the one that shows
\* the PDF in an iframe (DocumentViewer.js) and the one that renders the
\* pages itself (part_006).  A page argument is a JavaScript value: its
\* type and, for a number or a numeric string, its numeric value.
NoPage == [type |-> "undefined", value |-> 0]
PageArgs ==
  { NoPage,
    [type |-> "string", value |-> 3],
    [type |-> "number", value |-> 0],
    [type |-> "number", value |-> -1],
    [type |-> "number", value |-> 2],
    [type |-> "number", value |-> MaxPages] }
SearchArgs == { <<>>, <<" ">>, <<"e">> }

\* `!pageNumber`
IsFalsy(arg) ==
  arg.type = "undefined" \/ (arg.type = "number" /\ arg.value = 0)

\* (mutant) the test without its typeof check
IsValidPageUntyped(arg) == ~IsFalsy(arg) /\ arg.value > 0

\* `pageNumber && typeof pageNumber === 'number' && pageNumber > 0`
IsValidPage(arg) ==
  ~IsFalsy(arg) /\ arg.type = "number" /\ arg.value > 0

Min2(a, b) == IF a < b THEN a ELSE b
Max2(a, b) == IF a > b THEN a ELSE b

\* What a handler of the page-rendering viewer closed over.  The citation
\* handler is memoised with an empty dependency list: it calls the
\* navigateToPage and handleSearch of the first render.
FirstRender == [numPages |-> 0, pdfDocument |-> FALSE]
ThisRender == [numPages |-> numPages, pdfDocument |-> documentFile]

\* navigateToPage of the iframe viewer: the iframe's src is replaced by the
\* viewer URL with the page parameter.
IframeNavigate(v, ready, page) ==
  IF ~ready THEN [view |-> v, snackbar |-> "warning"]
  ELSE [view |-> [v EXCEPT !.page = page, !.search = <<>>],
        snackbar |-> "success"]

\* searchInPdf of the iframe viewer: the iframe's src is replaced by the
\* viewer URL with the search parameter.
IframeSearch(v, ready, text, bar) ==
  IF ~ready \/ Trim(text) = <<>> THEN [view |-> v, snackbar |-> bar]
  ELSE [view |-> [v EXCEPT !.page = 0, !.search = Trim(text)],
        snackbar |-> "info"]

\* `Math.max(1, Math.min(numPages, pageNum))`, null counting as 0
ClampPage(pageNum, seen) == Max2(1, Min2(seen.numPages, pageNum))

\* handleSearch of the page-rendering viewer: the debounce timer
ArmSearch(text, seen) ==
  [pending |-> TRUE, text |-> text, pdfDocument |-> seen.pdfDocument,
   numPages |-> seen.numPages]

\* The PDF is loaded: setDocumentFile in the iframe viewer,
\* onDocumentLoadSuccess in the page-rendering one.
DocumentLoads ==
  /\ ~documentFile
  /\ documentFile' = TRUE
  /\ numPages' = IF coordinator = "pages" THEN MaxPages ELSE numPages
  /\ snackbar' = IF coordinator = "pages" THEN "success" ELSE snackbar
  /\ UNCHANGED << coordinator, pdfView, scrollTimer, searchTimer >>
  /\ UNCHANGED << chatPageVars, uploadVars, resolverVars, restVars, promiseVars,
                  frameVars >>

\* handleSourceClick(pageNumber, searchText) of the iframe viewer, which
\* takes the page number only.
IframeSourceClick(page, text) ==
  /\ coordinator = "iframe"
  /\ IF IsValidPage(page)
       THEN LET after == IframeNavigate(pdfView, documentFile, page.value)
            IN pdfView' = after.view /\ snackbar' = after.snackbar
       ELSE pdfView' = pdfView /\ snackbar' = "warning"
  /\ UNCHANGED << coordinator, documentFile, numPages, scrollTimer,
                  searchTimer >>
  /\ UNCHANGED << chatPageVars, uploadVars, resolverVars, restVars, promiseVars,
                  frameVars >>

\* handleSourceClick(pageNumber, searchText) of the page-rendering viewer
PagesSourceClick(page, text) ==
  /\ coordinator = "pages"
  /\ IF IsValidPage(page)
       THEN /\ pdfView' = [pdfView EXCEPT
                 !.page = ClampPage(page.value, FirstRender),
                 !.search = IF text # <<>> THEN text ELSE @]
            /\ scrollTimer' = ClampPage(page.value, FirstRender)
            /\ searchTimer' = IF text # <<>> THEN ArmSearch(text, FirstRender)
                              ELSE searchTimer
            /\ snackbar' = "success"
       ELSE /\ snackbar' = "warning"
            /\ UNCHANGED << pdfView, scrollTimer, searchTimer >>
  /\ UNCHANGED << coordinator, documentFile, numPages >>
  /\ UNCHANGED << chatPageVars, uploadVars, resolverVars, restVars, promiseVars,
                  frameVars >>

\* The search box of the toolbar: handleSearch of the current render.
SearchBox(text) ==
  /\ IF coordinator = "iframe"
       THEN LET after == IframeSearch(pdfView, documentFile, text, snackbar)
            IN /\ pdfView' = after.view
               /\ snackbar' = after.snackbar
               /\ UNCHANGED searchTimer
       ELSE /\ pdfView' = [pdfView EXCEPT !.search = text]
            /\ searchTimer' = ArmSearch(text, ThisRender)
            /\ UNCHANGED snackbar
  /\ UNCHANGED << coordinator, documentFile, numPages, scrollTimer >>
  /\ UNCHANGED << chatPageVars, uploadVars, resolverVars, restVars, promiseVars,
                  frameVars >>

\* The 100 ms timer of navigateToPage scrolls the page into view.
ScrollTimerFires ==
  /\ scrollTimer # 0
  /\ scrollTimer' = 0
  /\ pdfView' = [pdfView EXCEPT !.scroll = scrollTimer]
  /\ UNCHANGED << coordinator, documentFile, numPages, snackbar, searchTimer >>
  /\ UNCHANGED << chatPageVars, uploadVars, resolverVars, restVars, promiseVars,
                  frameVars >>

\* The 500 ms debounce timer runs performSearch(text): without a PDF or a
\* text it returns; else it searches all pages and, when there is a match,
\* sets the page to that of the first match.
SearchTimerFires ==
  /\ searchTimer.pending
  /\ searchTimer' = NoTimer
  /\ IF ~searchTimer.pdfDocument \/ Trim(searchTimer.text) = <<>>
       THEN UNCHANGED << pdfView, snackbar >>
       ELSE \E firstMatch \in 0..searchTimer.numPages :
              IF firstMatch = 0
                THEN pdfView' = pdfView /\ snackbar' = "info"
                ELSE /\ pdfView' = [pdfView EXCEPT !.page = firstMatch]
                     /\ snackbar' = "success"
  /\ UNCHANGED << coordinator, documentFile, numPages, scrollTimer >>
  /\ UNCHANGED << chatPageVars, uploadVars, resolverVars, restVars, promiseVars,
                  frameVars >>

\* The snackbar closes (autoHideDuration or its close button).
CloseSnackbar ==
  /\ snackbar # NoSnackbar
  /\ snackbar' = NoSnackbar
  /\ UNCHANGED << coordinator, documentFile, numPages, pdfView, scrollTimer,
                  searchTimer >>
  /\ UNCHANGED << chatPageVars, uploadVars, resolverVars, restVars, promiseVars,
                  frameVars >>

\* ------------------------------------------------------------- createStreamPromise
\* The frames an event source delivers, by what JSON.parse makes of them:
\* an object with a type, text that does not parse (parseSSEData returns
\* `{ error: 'Invalid data format' }`, an object without type), and the
\* JSON value null (reading `data.type` throws).
FrameKinds == {"content", "complete", "error", "malformed", "null"}

ErrStream     == "Stream error"
ErrConnect    == "EventSource connection error"
ErrTimeout    == "Stream timeout"
ErrThrown     == "exception"

\* A promise is settled once: later calls of resolve and reject do nothing.
Settle(p, state, value) ==
  IF p.state = "pending" THEN [p EXCEPT !.state = state, !.value = value]
  ELSE p

\* "Check for completion": what a frame of this kind does to the promise
OutcomeOf(kind) ==
  IF kind = "complete" THEN "resolved"
  ELSE IF kind = "error" THEN "rejected"
  ELSE "pending"

\* createStreamPromise(eventSource, onData, onError): the handlers are
\* attached and the timeout is armed.
CreateStreamPromise ==
  /\ promise.state = "none"
  /\ \E withOnData, withOnError \in BOOLEAN :
       promise' = [state |-> "pending", value |-> "",
                   onData |-> withOnData, onError |-> withOnError]
  /\ streamTimer' = "armed"
  /\ UNCHANGED << esReadyState, onDataCalls, onErrorCalls >>
  /\ UNCHANGED << chatPageVars, uploadVars, resolverVars, restVars,
                  citationVars, frameVars >>

\* eventSource.onmessage for a frame of the kind; throws: onData throws.
OnFrame(kind, throws) ==
  /\ promise.state # "none"
  /\ esReadyState = "open"
  /\ Len(onDataCalls) < MaxFrames
  /\ throws => promise.onData
  /\ onDataCalls' = IF promise.onData THEN Append(onDataCalls, kind)
                    ELSE onDataCalls
  /\ IF throws \/ kind = "null"
       THEN /\ esReadyState' = "closed"
            /\ onErrorCalls' = IF promise.onError THEN onErrorCalls + 1
                               ELSE onErrorCalls
            /\ promise' = Settle(promise, "rejected", ErrThrown)
       ELSE IF OutcomeOf(kind) # "pending"
         THEN /\ esReadyState' = "closed"
              /\ promise' = Settle(promise, OutcomeOf(kind),
                                   IF kind = "error" THEN ErrStream ELSE kind)
              /\ UNCHANGED onErrorCalls
         ELSE UNCHANGED << esReadyState, promise, onErrorCalls >>
  /\ UNCHANGED streamTimer
  /\ UNCHANGED << chatPageVars, uploadVars, resolverVars, restVars,
                  citationVars, frameVars >>

\* eventSource.onerror
OnStreamError ==
  /\ promise.state # "none"
  /\ esReadyState = "open"
  /\ esReadyState' = "closed"
  /\ onErrorCalls' = IF promise.onError THEN onErrorCalls + 1 ELSE onErrorCalls
  /\ promise' = Settle(promise, "rejected", ErrConnect)
  /\ UNCHANGED << streamTimer, onDataCalls >>
  /\ UNCHANGED << chatPageVars, uploadVars, resolverVars, restVars,
                  citationVars, frameVars >>

\* The callback of setTimeout(..., 60000)
StreamTimeout ==
  /\ streamTimer = "armed"
  /\ streamTimer' = "fired"
  /\ IF esReadyState # "closed"
       THEN /\ esReadyState' = "closed"
            /\ promise' = Settle(promise, "rejected", ErrTimeout)
       ELSE UNCHANGED << esReadyState, promise >>
  /\ UNCHANGED << onDataCalls, onErrorCalls >>
  /\ UNCHANGED << chatPageVars, uploadVars, resolverVars, restVars,
                  citationVars, frameVars >>

\* The caller, who created the event source, closes it itself.
CallerCloses ==
  /\ esReadyState = "open"
  /\ esReadyState' = "closed"
  /\ UNCHANGED << promise, streamTimer, onDataCalls, onErrorCalls >>
  /\ UNCHANGED << chatPageVars, uploadVars, resolverVars, restVars,
                  citationVars, frameVars >>

\* ------------------------------------------------------------- frames that do not parse
\* A frame whose data is not valid JSON: JSON.parse throws inside the try
\* of onmessage and the catch logs.  garbledFrames keeps which stream got
\* such a frame and what it had delivered before.
GarbledOn(kind, k) == { g \in garbledFrames : g[1] = kind /\ g[2] = k }

\* (mutant) the catch closing the EventSource
AfterParseFailureClosing(strs, k) == [strs EXCEPT ![k].closedBy = "catch"]

\* The catch of the chat stream's onmessage
AfterParseFailure(strs, k) == strs

\* The chat stream's onmessage for a frame that is not valid JSON
OnMalformedFrame(k) ==
  /\ IsOpen(k)
  /\ Cardinality(GarbledOn("chat", k)) < MaxGarbled
  /\ garbledFrames' = garbledFrames \cup { << "chat", k, streams[k].sent >> }
  /\ streams' = AfterParseFailure(streams, k)
  /\ UNCHANGED << viewerVars, createReqs, clearReqs, chatVars, view, clock >>
  /\ UNCHANGED << uploadVars, resolverVars, restVars, citationVars,
                  promiseVars >>

\* The status stream's onmessage for a frame that is not valid JSON
OnMalformedStatus(q) ==
  /\ uploadReqs[q].stream = "open"
  /\ Cardinality(GarbledOn("status", q)) < MaxGarbled
  /\ garbledFrames' = garbledFrames \cup
       { << "status", q, StatusIn(uploads, TaskId(q)) >> }
  /\ UNCHANGED uploadVars
  /\ UNCHANGED << chatPageVars, resolverVars, restVars, citationVars,
                  promiseVars >>

\* ------------------------------------------------------------- specification
ChatNext ==
  \/ OpenChat
  \/ \E r \in DOMAIN createReqs : InitResolved(r)
  \/ \E r \in DOMAIN createReqs : InitRejected(r)
  \/ Render
  \/ SetInput
  \/ SendIgnored
  \/ SendMessage
  \/ SendThrows
  \/ \E k \in DOMAIN streams : OnContent(k)
  \/ \E k \in DOMAIN streams : OnSources(k)
  \/ \E k \in DOMAIN streams : OnComplete(k)
  \/ \E k \in DOMAIN streams : OnErrorEvent(k)
  \/ \E k \in DOMAIN streams : OnUnknownEvent(k)
  \/ \E k \in DOMAIN streams : OnTransportError(k)
  \/ StopStreaming
  \/ ClearChat
  \/ \E c \in DOMAIN clearReqs : ClearResolved(c)
  \/ \E c \in DOMAIN clearReqs : ClearRejected(c)

\* One ChatInterface instance: the chat panel is opened and stays open.
Spec == Init /\ [][ChatNext]_vars

ViewerNext ==
  \/ OpenChat
  \/ CloseChat
  \/ ChangeDocument
  \/ \E r \in DOMAIN createReqs : InitResolved(r)
  \/ \E r \in DOMAIN createReqs : InitRejected(r)
  \/ Render
  \/ SetInput
  \/ SendIgnored
  \/ SendMessage
  \/ \E k \in DOMAIN streams : OnComplete(k)
  \/ \E k \in DOMAIN streams : OnTransportError(k)
  \/ StopStreaming

\* The viewer: the chat panel is opened and closed and the route changes,
\* while sessions are created and messages are sent and answered.
SpecViewer == Init /\ [][ViewerNext]_vars

\* The page as the build starts it: debugMode is
\* `process.env.NODE_ENV === 'development'`.
InitUpload ==
  /\ ChatIdle
  /\ UploadIdle
  /\ SideIdle
  /\ nodeEnv \in {"production", "development"}
  /\ debugMode = (nodeEnv = "development")
  /\ basePathGlobal = <<>>
  /\ pathname = <<"/">>
  /\ built = NothingBuilt

\* The file lists the user selects while uploads are tracked: up to MaxBatch
\* files, all PDFs or the first one not, with any values of Math.random().
TrackedBatches == { Batch(n, bad) : n \in 1..MaxBatch, bad \in {0, 1} }
Fractions == 0..MaxFraction

UploadNext ==
  \/ /\ now < MaxSelections
     /\ \E files \in TrackedBatches :
          \E rnd \in [1..Len(files) -> Fractions] :
            HandleFileSelection(files, rnd)
  \/ \E name \in FieldNames : SetField(name, <<"J">>)
  \/ HandleQuickFill
  \/ HandleUploadAll
  \/ RenderUpload
  \/ \E q \in DOMAIN uploadReqs : OnUploadProgress(q)
  \/ \E q \in DOMAIN uploadReqs : TestPassed(q)
  \/ \E q \in DOMAIN uploadReqs : TestFailed(q)
  \/ \E q \in DOMAIN uploadReqs : UploadFailed(q)
  \/ \E q \in DOMAIN uploadReqs : UploadSucceeded(q)
  \/ \E q \in DOMAIN uploadReqs : OnStatusMessage(q)
  \/ \E q \in DOMAIN uploadReqs : OnStatusStreamError(q)
  \/ \E q \in DOMAIN uploadReqs : PollTimerFires(q)
  \/ \E q \in DOMAIN uploadReqs : PollResolved(q)
  \/ \E q \in DOMAIN uploadReqs : PollEmpty(q)
  \/ \E q \in DOMAIN uploadReqs : PollRejected(q)

\* The upload page while uploads are tracked: files are selected, the form
\* is filled, uploads are started and tracked to their end.
SpecUpload == InitUpload /\ [][UploadNext]_vars

\* The file lists the user selects while the form is validated: one file,
\* the most allowed at once and one more, all PDFs or the first one not;
\* Math.random() gives every file of a selection another value.
FormBatchSizes == {1, MaxFilesAtOnce, MaxFilesAtOnce + 1}
FormBatches ==
  { Batch(n, bad) : n \in FormBatchSizes, bad \in {0, 1} }
DistinctRandom(n) == [i \in 1..n |-> i]

FormNext ==
  \/ /\ now < MaxFormSelections
     /\ \E files \in FormBatches :
          HandleFileSelection(files, DistinctRandom(Len(files)))
  \/ \E i \in {1} \cap DOMAIN selectedFiles :
       HandleRemoveFile(selectedFiles[i].id)
  \/ \E name \in FieldNames : \E text \in FieldValues : SetField(name, text)
  \/ HandleUploadAll

\* The upload form of a production build: files are selected and removed,
\* the fields are edited and "upload all" is pressed; the requests it
\* starts stay unanswered.
SpecForm == Init /\ [][FormNext]_vars

\* The base-path resolver and the URL builders, over the values the server
\* may inject and the paths the page may be loaded at.
HostName == << "h" >>
AppPath  == << "/","a" >>
InjectedValues ==
  { <<>>,
    AppPath,
    << "a" >>,
    AppPath \o << "/" >>,
    << "/" >>,
    Https,
    Https \o HostName,
    Https \o HostName \o << "/" >>,
    Https \o HostName \o AppPath,
    Https \o HostName \o AppPath \o << "/" >>,
    Https \o HostName \o AppPath \o << "/","/" >>,
    Http \o HostName \o AppPath \o << "?","q" >> }
WorkbenchPath == << "/","s","/","x","/","p","/","1" >>
ConnectPath   == ConnectStart \o << "a" >>
Pathnames ==
  { << "/" >>,
    << "/","d","/","1" >>,
    WorkbenchPath,
    WorkbenchPath \o << "/","d","/","1" >>,
    << "/","s","/","x","/","p","/" >>,
    ConnectPath,
    ConnectPath \o << "/","d","/","1" >>,
    ConnectStart,
    AppPath \o << "/","p","/","1","/","d" >> }

InitResolver ==
  /\ ChatIdle
  /\ UploadIdle
  /\ SideIdle
  /\ nodeEnv \in {"production", "development"}
  /\ debugMode = (nodeEnv = "development")
  /\ basePathGlobal \in InjectedValues
  /\ pathname \in Pathnames
  /\ built = NothingBuilt

ResolverNext ==
  \/ LoadApiService
  \/ MountApp
  \/ CreateStatusStream
  \/ ChatMessageStream
  \/ ServeDocument
  \/ AdminConfigCall

SpecResolver == InitResolver /\ [][ResolverNext]_vars

\* The rejections axios can hand over: with or without a response, with or
\* without the request that was made, with or without a message.
RequestParts == { [k \in {} |-> Undefined], [request |-> "XMLHttpRequest"] }
MessageParts ==
  { [k \in {} |-> Undefined] } \cup { [message |-> m] : m \in OriginalMessages }
ResponseParts ==
  { [k \in {} |-> Undefined] } \cup { [response |-> r] : r \in Responses }
AxiosErrors ==
  { With(With(a, b), c) :
      a \in ResponseParts, b \in RequestParts, c \in MessageParts }

InitRest ==
  /\ ChatIdle
  /\ UploadIdle
  /\ debugMode = FALSE
  /\ basePathGlobal = <<>>
  /\ pathname = <<"/">>
  /\ nodeEnv = "production"
  /\ built = NothingBuilt
  /\ restError \in AxiosErrors
  /\ restThrown = NotThrown
  /\ ViewerIdle("iframe")
  /\ PromiseIdle
  /\ FramesIdle

RestNext == InterceptRejection

SpecRest == InitRest /\ [][RestNext]_vars

\* The viewer of either kind, its document loading at some point, with
\* citation clicks and searches from the toolbar.
InitCitation ==
  /\ ChatIdle
  /\ UploadIdle
  /\ debugMode = FALSE
  /\ basePathGlobal = <<>>
  /\ pathname = <<"/">>
  /\ nodeEnv = "production"
  /\ built = NothingBuilt
  /\ RestIdle
  /\ PromiseIdle
  /\ FramesIdle
  /\ \E which \in {"iframe", "pages"} : ViewerIdle(which)

CitationNext ==
  \/ DocumentLoads
  \/ \E page \in PageArgs, text \in SearchArgs : IframeSourceClick(page, text)
  \/ \E page \in PageArgs, text \in SearchArgs : PagesSourceClick(page, text)
  \/ \E text \in SearchArgs : SearchBox(text)
  \/ ScrollTimerFires
  \/ SearchTimerFires
  \/ CloseSnackbar

SpecCitation == InitCitation /\ [][CitationNext]_vars

\* One event source handed to createStreamPromise.
PromiseNext ==
  \/ CreateStreamPromise
  \/ \E kind \in FrameKinds, throws \in BOOLEAN : OnFrame(kind, throws)
  \/ OnStreamError
  \/ StreamTimeout
  \/ CallerCloses

SpecPromise == Init /\ [][PromiseNext]_vars

\* The chat stream and the status stream of one upload, with frames that
\* do not parse among their events; the upload form is filled.
InitFrames ==
  /\ ChatIdle
  /\ selectedFiles = <<>>
  /\ uploads = NoUploads
  /\ uploadsView = NoUploads
  /\ uploadError = NoError
  /\ uploadReqs = <<>>
  /\ now = 0
  /\ form = QuickFillForm
  /\ debugMode = FALSE
  /\ basePathGlobal = <<>>
  /\ pathname = <<"/">>
  /\ nodeEnv = "production"
  /\ built = NothingBuilt
  /\ SideIdle

FramesNext ==
  \/ OpenChat
  \/ \E r \in DOMAIN createReqs : InitResolved(r)
  \/ Render
  \/ SetInput
  \/ SendMessage
  \/ \E k \in DOMAIN streams : OnContent(k)
  \/ \E k \in DOMAIN streams : OnComplete(k)
  \/ \E k \in DOMAIN streams : OnMalformedFrame(k)
  \/ /\ now < MaxSelections
     /\ HandleFileSelection(Batch(1, 0), DistinctRandom(1))
  \/ HandleUploadAll
  \/ RenderUpload
  \/ \E q \in DOMAIN uploadReqs : UploadSucceeded(q)
  \/ \E q \in DOMAIN uploadReqs : OnStatusMessage(q)
  \/ \E q \in DOMAIN uploadReqs : OnMalformedStatus(q)

SpecFrames == InitFrames /\ [][FramesNext]_vars


\* ------------------------------------------------------------- claims
OpenStreamsOf(session) ==
  { k \in DOMAIN streams : IsOpen(k) /\ streams[k].session = session }

\* C1: at most one chat stream is open per session at any time (a send
\* while the session's previous stream has not ended opens no stream).
C1_OneStreamPerSession ==
  \A k \in DOMAIN streams :
    IsOpen(k) => Cardinality(OpenStreamsOf(streams[k].session)) <= 1

\* C2: once a stream has delivered an `error` event, the server's message
\* is the user-visible error, the EventSource is closed and the client is
\* not streaming.
C2_ErrorEventAborts ==
  \A k \in DOMAIN streams :
    (Mounted(streams[k]) /\ streams[k].errorEvent) =>
       /\ ~IsOpen(k)
       /\ error = ServerError
       /\ ~isStreaming

IsPrefix(a, b) == Len(a) <= Len(b) /\ SubSeq(b, 1, Len(a)) = a

\* The deltas 1..n the server has streamed, in arrival order.
RECURSIVE Delivered(_)
Delivered(n) == IF n = 0 THEN <<>> ELSE Delivered(n - 1) \o Delta(n)

\* The list the last `sources` event carried, if one carried a list.
DeliveredSources(payload) == IF payload = "list" THEN SourceList ELSE <<>>

AnswersTo(k) ==
  { i \in 1..Len(messages) :
      messages[i].role = "assistant" /\ messages[i].id = k }

\* C3: `complete` on a stream that delivered deltas d1..dn and a sources
\* list appends exactly one assistant message, whose content is d1..dn in
\* arrival order and whose sources are that list; it empties the live
\* buffer and ends the streaming state; no other step adds an answer.
C3_CompleteStep ==
  \A k \in DOMAIN streams :
    (IsOpen(k) /\ Mounted(streams[k]) /\ streams'[k].closedBy = "complete") =>
       /\ messages' = Append(messages,
            [id |-> k, role |-> "assistant",
             content |-> Delivered(streams[k].sent),
             sources |-> DeliveredSources(streams[k].srcData)])
       /\ streamingContent' = <<>>
       /\ ~isStreaming'

C3_OneAnswer ==
  \A k \in DOMAIN streams :
    /\ Cardinality(AnswersTo(k)) <= 1
    /\ AnswersTo(k) # {} => streams[k].closedBy = "complete"

C3_CompleteAppendsAccumulated == []C3_OneAnswer /\ [][C3_CompleteStep]_vars

C3_Witness ==
  /\ 1 \in DOMAIN streams
  /\ streams[1].closedBy = "complete"
  /\ \E i \in 1..Len(messages) :
       messages[i] = [id |-> 1, role |-> "assistant",
                      content |-> <<"H", "e", "l", "l", "o">>,
                      sources |-> SourceList]
  /\ streamingContent = <<>>
  /\ ~isStreaming

\* C4: the in-flight stream is the one streamingRef references; stopping
\* it closes it, leaves the history as it is, empties the live buffer and
\* ends the streaming state; a closed stream processes no further event,
\* and a stopped stream never gets an assistant message.
C4_InFlightIsReferenced ==
  \A k \in DOMAIN streams :
    (IsOpen(k) /\ Mounted(streams[k])) => streamingRef = k

C4_StopStep ==
  \A k \in DOMAIN streams :
    (chatOpen /\ chatOpen' /\ IsOpen(k) /\ streamingRef = k /\ streamingRef' = 0
       /\ streams'[k].closedBy \notin {"complete", "onerror"}) =>
       /\ streams'[k].closedBy = "stop"
       /\ messages' = messages
       /\ streamingContent' = <<>>
       /\ ~isStreaming'

C4_ClosedIsFinal ==
  \A k \in DOMAIN streams : ~IsOpen(k) => streams'[k] = streams[k]

C4_NoAnswer ==
  \A k \in DOMAIN streams : streams[k].closedBy = "stop" => AnswersTo(k) = {}

C4_StopDiscardsAnswer ==
  /\ [](C4_InFlightIsReferenced /\ C4_NoAnswer)
  /\ [][C4_StopStep /\ C4_ClosedIsFinal]_vars

C4_Witness ==
  /\ {1, 2} \subseteq DOMAIN streams
  /\ streams[1].closedBy = "stop"
  /\ streams[2].closedBy = "complete"
  /\ AnswersTo(1) = {}
  /\ AnswersTo(2) # {}

IsSystem(m) == m.role = "system"

\* C5: a successful clear with keep_system_messages = TRUE leaves exactly
\* the system messages in the local list; with FALSE it leaves none.
C5_ClearKeepsSystemMessages ==
  [][ \A c \in DOMAIN clearReqs :
        (clearReqs[c].status = "sent" /\ clearReqs'[c].status = "ok"
           /\ Mounted(clearReqs[c])) =>
          messages' = IF clearReqs[c].keep_system_messages
                        THEN SelectSeq(messages, IsSystem)
                        ELSE <<>> ]_vars

\* C6: when the clear request fails the local list is unchanged and the
\* error is set; the list loses messages only in the step that handles a
\* successful clear (or the answer to a create-session request, which
\* replaces the list by the session's messages).
C6_FailureStep ==
  \A c \in DOMAIN clearReqs :
    (clearReqs[c].status = "sent" /\ clearReqs'[c].status = "failed"
       /\ Mounted(clearReqs[c])) =>
      messages' = messages /\ error' = ErrClear

C6_TruncationStep ==
  (chatOpen /\ chatOpen' /\ ~IsPrefix(messages, messages')) =>
     \/ \E c \in DOMAIN clearReqs :
          clearReqs[c].status = "sent" /\ clearReqs'[c].status = "ok"
     \/ \E r \in DOMAIN createReqs :
          ~createReqs[r].done /\ createReqs'[r].done

C6_ClearAfterServerSuccess == [][C6_FailureStep /\ C6_TruncationStep]_vars

C6_Witness ==
  /\ chatOpen
  /\ \E c \in DOMAIN clearReqs : clearReqs[c].status = "failed"
  /\ Len(messages) >= 2
  /\ error = ErrClear

\* C7: at most one create-session request is issued for each document.
C7_OneCreatePerDocument ==
  \A d \in Docs :
    Cardinality({ r \in DOMAIN createReqs : createReqs[r].doc = d }) <= 1

\* C8: a user message is appended or a stream opened only by a send whose
\* session exists and whose trimmed text is non-empty; that step appends
\* the user message and leaves the new stream with no event processed;
\* without a session or a text the streaming flag is not raised.
C8_SendStep ==
  ( \/ DOMAIN streams' # DOMAIN streams
    \/ clock' # clock
    \/ /\ Len(messages') > Len(messages)
       /\ messages'[Len(messages')].role = "user" ) =>
     /\ chatSession # NoSession
     /\ Trim(inputValue) # <<>>
     /\ messages' = Append(messages,
          [id |-> clock + 1, role |-> "user", content |-> Trim(inputValue),
           sources |-> <<>>])
     /\ \A k \in DOMAIN streams' \ DOMAIN streams :
          /\ streams'[k].closedBy = ""
          /\ streams'[k].sent = 0
          /\ streams'[k].srcData = "none"
          /\ ~streams'[k].errorEvent

C8_NoEffectStep ==
  (chatSession = NoSession \/ Trim(inputValue) = <<>>) =>
     (isStreaming' => isStreaming)

C8_SendPreconditions == [][C8_SendStep /\ C8_NoEffectStep]_vars

C8_Witness ==
  /\ IsOpen(1)
  /\ streams[1].sent = 0
  /\ streams[1].srcData = "none"
  /\ messages # <<>>
  /\ messages[Len(messages)] =
       [id |-> 1, role |-> "user", content |-> <<"h">>, sources |-> <<>>]
  /\ isStreaming

C10_AppendStep ==
  \A k \in DOMAIN streams :
    (IsOpen(k) /\ streams[k].live /\ streams'[k].live
       /\ streams'[k].closedBy = "") =>
      IsPrefix(streams[k].content, streams'[k].content)

C10_FrozenStep ==
  \A i \in 1..Len(messages) : \A j \in 1..Len(messages') :
    (messages[i].role = "assistant" /\ messages'[j].role = "assistant"
       /\ messages[i].id = messages'[j].id) =>
      messages'[j] = messages[i]

C10_ContentAppendOnlyThenFrozen == [][C10_AppendStep /\ C10_FrozenStep]_vars

C10_Witness ==
  /\ IsOpen(2)
  /\ streams[2].content = <<"H", "e", "l", "l", "o">>
  /\ \E i \in 1..Len(messages) :
       /\ messages[i].role = "assistant"
       /\ messages[i].id = 1
       /\ messages[i].content = <<"H", "e", "l">>

\* ------------------------------------------------------------- claims: upload
\* `upload?.status || 'pending'`: the status the page shows for a task
DisplayedStatus(prev, id) ==
  IF StatusIn(prev, id) = Undefined THEN "pending" ELSE StatusIn(prev, id)

StatusChain ==
  { << "pending", "uploading" >>, << "uploading", "uploaded" >>,
    << "uploaded", "processing" >>, << "processing", "completed" >>,
    << "processing", "error" >> }

\* C11: the status of every upload task only moves along
\* pending -> uploading -> uploaded -> processing -> {completed | error};
\* no step skips a stage or goes backwards.
C11_StatusChain ==
  [][\A id \in DOMAIN uploads' :
       \/ DisplayedStatus(uploads', id) = DisplayedStatus(uploads, id)
       \/ << DisplayedStatus(uploads, id), DisplayedStatus(uploads', id) >>
            \in StatusChain]_vars

\* Some selected file goes from pending to uploading in this step.
MovesToUploading ==
  \E i \in DOMAIN selectedFiles :
    /\ DisplayedStatus(uploads, selectedFiles[i].id) = "pending"
    /\ DisplayedStatus(uploads', selectedFiles[i].id) = "uploading"

\* C12: files go from pending to uploading only in a step at which
\* compound, study id and deliverable are non-empty after trim, at least
\* one file is selected and at most 10 files are selected.
C12_UploadAllGuards ==
  [][MovesToUploading =>
       /\ Trim(form.compound) # <<>>
       /\ Trim(form.studyId) # <<>>
       /\ Trim(form.deliverable) # <<>>
       /\ Len(selectedFiles) >= 1
       /\ Len(selectedFiles) <= 10]_vars

\* A file list holds a file that is no PDF.
HasNonPdf(files) == \E i \in DOMAIN files : files[i].type # "application/pdf"

\* This step is the selection of the file list files.
SelectionOf(files) == HandleFileSelection(files, DistinctRandom(Len(files)))

\* C13: selecting a file list with at least one file that is no PDF leaves
\* the list of selected files as it was and reports the validation error.
C13_MixedBatchRejected ==
  [][\A files \in FormBatches :
       (HasNonPdf(files) /\ SelectionOf(files)) =>
          /\ selectedFiles' = selectedFiles
          /\ uploadError' = "Only PDF files are supported"]_vars

\* A mixed list was rejected while files selected before stay selected.
C13_Witness ==
  /\ uploadError = "Only PDF files are supported"
  /\ Len(selectedFiles) > 0
  /\ now = 2

\* C14: selecting 11 PDF files adds no file and reports an error; selecting
\* 10 PDF files adds all 10 as pending after the files selected before, and
\* clears the error.
C14_ElevenRejectedTenAccepted ==
  [][/\ SelectionOf(Batch(11, 0)) =>
          /\ selectedFiles' = selectedFiles
          /\ uploadError' = "Maximum 10 files can be uploaded at once"
     /\ SelectionOf(Batch(10, 0)) =>
          /\ Len(selectedFiles') = Len(selectedFiles) + 10
          /\ SubSeq(selectedFiles', 1, Len(selectedFiles)) = selectedFiles
          /\ \A i \in (Len(selectedFiles) + 1)..Len(selectedFiles') :
               /\ selectedFiles'[i].status = "pending"
               /\ DisplayedStatus(uploads', selectedFiles'[i].id) = "pending"
          /\ uploadError' = NoError]_vars

\* 10 PDF files were accepted and a selection of 11 was rejected after it.
C14_Witness ==
  /\ Len(selectedFiles) = 10
  /\ \A i \in DOMAIN selectedFiles : selectedFiles[i].obj[1] = 1
  /\ now = 2
  /\ uploadError = "Maximum 10 files can be uploaded at once"

\* C15: after a transport error on a task's status stream, polling stops
\* only in a step that observed a terminal status: whenever the poll loop
\* comes to its end, the task's status is completed or error.
C15_PollsUntilTerminal ==
  [][\A q \in DOMAIN uploadReqs :
       ( /\ uploadReqs[q].stream = "closed"
         /\ uploadReqs[q].poll # "stopped"
         /\ uploadReqs'[q].poll = "stopped" ) =>
          StatusIn(uploads', TaskId(q)) \in {"completed", "error"}]_vars

\* This step is a callback of the upload, the status stream or the poll of
\* request q that writes to uploads.
EventOf(q) ==
  \/ OnUploadProgress(q)
  \/ TestFailed(q)
  \/ UploadFailed(q)
  \/ UploadSucceeded(q)
  \/ OnStatusMessage(q)
  \/ PollResolved(q)

\* C16: an event of one task leaves the entry of every other task as it
\* is, whatever the interleaving.
C16_TasksIndependent ==
  [][\A a \in DOMAIN uploadReqs :
       EventOf(a) =>
         \A b \in DOMAIN uploadReqs \ {a} :
           uploads'[TaskId(b)] = uploads[TaskId(b)]]_vars

\* C17: once the upload of a file has failed, no further upload request is
\* sent for that file: its call of startUpload sends nothing more and no
\* new call of startUpload is made for it.
C17_FailedUploadNotRetried ==
  [][\A q \in DOMAIN uploadReqs :
       uploadReqs[q].phase = "failed" =>
         /\ uploadReqs'[q] = uploadReqs[q]
         /\ \A p \in DOMAIN uploadReqs' \ DOMAIN uploadReqs :
              uploadReqs'[p].fileObj.obj # uploadReqs[q].fileObj.obj]_vars

\* An upload failed in debug mode, which sets the page's error, the task
\* shows error, and "upload all" was pressed again, which cleared the
\* page's error.
C17_Witness ==
  \E q \in DOMAIN uploadReqs :
    /\ uploadReqs[q].phase = "failed"
    /\ uploadReqs[q].debug
    /\ StatusIn(uploads, TaskId(q)) = "error"
    /\ uploadError = NoError


\* ------------------------------------------------------------- claims: base path
\* The base path a resolver returned: the router's base path as it is, a
\* built URL without its API root.
BasePathOf(url) == SubSeq(url, 1, Len(url) - Len(ApiRoot))
Resolved(builder) ==
  IF builder = "router" THEN built[builder] ELSE BasePathOf(built[builder])

\* The three resolvers have run on a server-provided full URL (getBaseURL
\* outside development, where it returns a constant).
ResolverOnUrl(builder) ==
  /\ built[builder] # NotBuilt
  /\ IsFullUrl(basePathGlobal)
  /\ builder = "rest" => nodeEnv = "production"

NoSlash(s) == \A i \in 1..Len(s) : s[i] # "/"
EndsSegment(r, p) ==
  StartsWith(p, r) /\ (Len(r) = Len(p) \/ p[Len(r) + 1] = "/")
IsWorkbenchPrefix(r, p) ==
  /\ EndsSegment(r, p)
  /\ \E session, port \in 1..Len(r) :
       /\ Len(r) = Len(WorkbenchStart) + session + Len(PortStart) + port
       /\ StartsWith(r, WorkbenchStart)
       /\ NoSlash(SubSeq(r, Len(WorkbenchStart) + 1,
                         Len(WorkbenchStart) + session))
       /\ StartsWith(After(r, Len(WorkbenchStart) + session), PortStart)
       /\ NoSlash(After(r, Len(r) - port))
IsConnectPrefix(r, p) ==
  /\ EndsSegment(r, p)
  /\ StartsWith(r, ConnectStart)
  /\ NoSlash(After(r, Len(ConnectStart)))
PrefixesOf(p) == { SubSeq(p, 1, n) : n \in 0..Len(p) }
IsDetectedPrefix(r, p) ==
  IF \E w \in PrefixesOf(p) : IsWorkbenchPrefix(w, p)
    THEN IsWorkbenchPrefix(r, p)
  ELSE IF \E c \in PrefixesOf(p) : IsConnectPrefix(c, p)
    THEN IsConnectPrefix(r, p)
  ELSE r = <<>>

ResolverOf(builder, g, p) ==
  IF builder = "router" THEN getBasePath(g, p)
  ELSE getEventSourceBaseURL(g, p)

C20_OneBasePathForAllUrls ==
  \A builder \in Builders \ {"router"} :
    built[builder] # NotBuilt =>
      built[builder] = getEventSourceBaseURL(basePathGlobal, pathname) \o ApiRoot


\* ------------------------------------------------------------- claims: REST client
\* The three error kinds, told apart by the thrown message.
IsHttpError(thrown) == Len(thrown) = 3 /\ thrown[2] = ": "
IsNoResponseError(thrown) == thrown = << ErrNoResponse >>
IsGenericError(thrown) ==
  Len(thrown) = 1 /\ ~IsNoResponseError(thrown)

\* The text the server gave in a response body, '' when it gave none.
GivenText(data) ==
  IF "detail" \in DOMAIN data /\ data.detail # "" THEN data.detail
  ELSE IF "message" \in DOMAIN data THEN data.message
  ELSE ""

\* C21: the Error a failed REST call throws is an HTTP error with the
\* status and the server's detail or message ("Server error" when it gave
\* none) exactly when a response was received, the no-response error
\* exactly when there was no response but a request, and else a generic
\* error with the original message; it is exactly one of the three.
C21_ThreeErrorKinds ==
  restThrown # NotThrown =>
    LET responded == "response" \in DOMAIN restError
        requested == "request" \in DOMAIN restError
    IN /\ IsHttpError(restThrown) <=> responded
       /\ IsNoResponseError(restThrown) <=> (~responded /\ requested)
       /\ IsGenericError(restThrown) <=> (~responded /\ ~requested)
       /\ Cardinality({ kind \in {"http", "none", "generic"} :
            \/ kind = "http" /\ IsHttpError(restThrown)
            \/ kind = "none" /\ IsNoResponseError(restThrown)
            \/ kind = "generic" /\ IsGenericError(restThrown) }) = 1
       /\ responded =>
            /\ restThrown[1] = restError.response.status
            /\ restThrown[3] =
                 IF GivenText(restError.response.data) = "" THEN ErrServer
                 ELSE GivenText(restError.response.data)
       /\ (~responded /\ ~requested /\ "message" \in DOMAIN restError
             /\ restError.message # "") =>
            restThrown = << restError.message >>

\* An HTTP error whose body has a message but no detail has been reported.
C21_Witness ==
  /\ IsHttpError(restThrown)
  /\ restError.response.data = [message |-> "M"]
  /\ restThrown[3] = "M"


\* ------------------------------------------------------------- claims: viewer coordinator
\* A citation handler is called with page and text.
SourceClick(page, text) ==
  IframeSourceClick(page, text) \/ PagesSourceClick(page, text)

\* C22: a citation handler called with a page number that is absent, not of
\* number type, zero or negative leaves the page, the search text, the scroll
\* position and the timers of the PDF view as they are and shows a warning.
C22_InvalidPageWarns ==
  [][\A page \in PageArgs, text \in SearchArgs :
       (SourceClick(page, text) /\ (page.type # "number" \/ page.value <= 0)) =>
         /\ UNCHANGED << pdfView, scrollTimer, searchTimer >>
         /\ snackbar' = "warning"]_vars

\* A loaded iframe viewer that was navigated to page 2 shows a warning: a
\* citation with an invalid page number was clicked and the page was kept.
C22_Witness ==
  /\ coordinator = "iframe"
  /\ documentFile
  /\ pdfView.page = 2
  /\ snackbar = "warning"

\* C23: a citation click with a valid page number and a search text, on a
\* loaded document, sets the view to that page at once and leaves the
\* search for that text pending, to run after the delay.
C23_NavigateThenSearch ==
  [][\A page \in PageArgs, text \in SearchArgs :
       (/\ SourceClick(page, text)
        /\ documentFile
        /\ page.type = "number" /\ page.value > 0
        /\ Trim(text) # <<>>) =>
         /\ pdfView'.page = page.value
         /\ searchTimer'.pending
         /\ searchTimer'.text = text]_vars


\* ------------------------------------------------------------- claims: createStreamPromise
IsSettled(p) == p.state \in {"resolved", "rejected"}

\* C24: a `complete` frame resolves the promise, an `error` frame and a
\* transport error reject it, each closing the event source (frames whose
\* handling throws aside); a settled promise has a closed event source; and
\* once the completion timeout has fired the promise is settled, so it is
\* rejected by the timeout when no terminal event arrived before.
C24_FourOutcomes ==
  /\ [][\A kind \in {"complete", "error"} :
          OnFrame(kind, FALSE) =>
            /\ promise'.state = OutcomeOf(kind)
            /\ esReadyState' = "closed"]_vars
  /\ [][OnStreamError =>
          promise'.state = "rejected" /\ esReadyState' = "closed"]_vars
  /\ [][StreamTimeout =>
          IsSettled(promise') /\ esReadyState' = "closed"]_vars
  /\ [](IsSettled(promise) => esReadyState = "closed")


\* ------------------------------------------------------------- claims: frames that do not parse
\* C25: a step in which the chat stream or a status stream receives a frame
\* that is not valid JSON changes nothing of the chat page (history,
\* accumulator, live buffer, error, streaming flag, the streams and whether
\* they are open) and nothing of the upload page (task entries, error, the
\* status streams and polls).
C25_MalformedFrameIgnored ==
  [][garbledFrames' # garbledFrames =>
       UNCHANGED << chatPageVars, uploadVars >>]_vars

\* Events that came after a frame that did not parse were processed: a chat
\* stream that got such a frame before any content has completed with an
\* answer, and a task whose stream got one while it was `uploaded` is
\* completed.
C25_Witness ==
  /\ \E g \in garbledFrames :
       /\ g[1] = "chat" /\ g[3] = 0
       /\ \E i \in DOMAIN messages :
            /\ messages[i].role = "assistant"
            /\ messages[i].id = g[2]
            /\ messages[i].content # <<>>
  /\ \E g \in garbledFrames :
       /\ g[1] = "status" /\ g[3] = "uploaded"
       /\ StatusIn(uploads, TaskId(g[2])) = "completed"


\* ------------------------------------------------- claims: chat pairing

\* C26: every assistant message of the history is immediately preceded by
\* the user message it answers: the history never starts with an assistant
\* message and never holds two assistant messages in a row, also when the
\* chat is cleared while an answer is streaming.
C26_AnswerFollowsQuestion ==
  \A i \in 1..Len(messages) :
    messages[i].role = "assistant" =>
      /\ i > 1
      /\ messages[i - 1].role = "user"
      /\ messages[i - 1].id = messages[i].id


\* ------------------------------------------------ claims: upload requests

\* The calls of startUpload for the selected file f, and whether the entry
\* of a task has a documentId.
StartedFor(f) == { q \in DOMAIN uploadReqs : uploadReqs[q].fileObj = f }
HasDocumentId(prev, id) ==
  id \in DOMAIN prev /\ "documentId" \in DOMAIN prev[id]

\* At most one upload request is ever sent for a selected file.
OneRequestPerFile ==
  \A i \in DOMAIN selectedFiles :
    /\ Cardinality(StartedFor(selectedFiles[i])) <= 1
    /\ \A q \in StartedFor(selectedFiles[i]) : uploadReqs[q].posts <= 1

\* A documentId, once in the entry of a file, stays the one it is.
DocumentIdBoundOnce ==
  \A i \in DOMAIN selectedFiles :
    HasDocumentId(uploads, selectedFiles[i].id) =>
      /\ HasDocumentId(uploads', selectedFiles[i].id)
      /\ uploads'[selectedFiles[i].id].documentId =
           uploads[selectedFiles[i].id].documentId

\* C27: for every selected file at most one upload request is sent and its
\* documentId is bound at most once, whatever the interleaving of "upload
\* all", progress callbacks and status updates, also while the task is
\* uploaded.
C27_OneUploadPerFile ==
  /\ [](OneRequestPerFile)
  /\ [][DocumentIdBoundOnce]_vars


\* ------------------------------------------------ claims: streaming flag

\* The chat page holds a reference to an EventSource that is open.
ReferencesOpenStream == streamingRef # 0 /\ IsOpen(streamingRef)

\* C28: the streaming flag is true exactly when the page references an open
\* stream, and while the flag is false the live buffer is empty (after
\* complete, transport error, stop, and an exception while opening).
C28_FlagMatchesStream ==
  /\ isStreaming <=> ReferencesOpenStream
  /\ ~isStreaming => streamingContent = <<>>


C28_Witness ==
  /\ ~isStreaming
  /\ \E j, k \in DOMAIN streams :
       /\ streams[j].closedBy = "onerror"
       /\ streams[k].closedBy = "stop"


\* --------------------------------------------- claims: upload monitoring

TerminalStatuses == {"completed", "error"}

\* Is the status stream, the poll loop of startUpload call q active?
StreamActive(q) == uploadReqs[q].stream = "open"
PollActive(q) == uploadReqs[q].poll \in {"timer", "inflight"}

\* A task whose status is completed or error keeps that status.
TerminalStays ==
  \A id \in DOMAIN uploads :
    StatusIn(uploads, id) \in TerminalStatuses =>
      StatusIn(uploads', id) = StatusIn(uploads, id)

\* No stream and no poll is active for a task that is completed or error.
TerminalIsQuiet ==
  \A q \in DOMAIN uploadReqs :
    StatusIn(uploads, TaskId(q)) \in TerminalStatuses =>
      ~StreamActive(q) /\ ~PollActive(q)

\* The stream and the poll loop of one task are never active together.
MonitoringExclusive ==
  \A q \in DOMAIN uploadReqs : ~(StreamActive(q) /\ PollActive(q))

\* C29: once a task is completed or error its status never changes again
\* and no stream or poll of it remains active, and the status stream and
\* the poll loop of one task are never both active.
C29_TerminalAbsorbing ==
  /\ [][TerminalStays]_vars
  /\ [](TerminalIsQuiet)
  /\ [](MonitoringExclusive)


\* ------------------------------------------- claims: session and document

\* The streams this step opens, one per message sent, and the document the
\* session of such a stream was created for.
SentNow == DOMAIN streams' \ DOMAIN streams
DocumentOfSession(id) == createReqs[id].doc

\* C30: whenever a chat message is sent, the session it is sent on was
\* created for the document shown at that moment; after documentId has
\* changed, no message goes to a session of the previous document.
C30_SessionOfShownDocument ==
  [][\A k \in SentNow :
       DocumentOfSession(streams'[k].session) = documentId']_vars
====
